---- MODULE Spec2Model ----
(***************************************************************************)
(* Model of the query coordinator (be/src/runtime/coordinator.cc).         *)
(*                                                                         *)
(* State: the Coordinator's fields (lock_, wait_lock_, query_status_,      *)
(* has_called_wait_, executor_, num_backends_, num_remaining_backends_,    *)
(* backend_exec_states_), the position of every thread that is inside a    *)
(* Coordinator method, the remote backends (which send status reports) and *)
(* a history record of what was observed at the interface.                 *)
(***************************************************************************)
EXTENDS Integers, Sequences, FiniteSets, TLC

\* ------------------------------------------------------------------ bounds
\* status reports with done=false the backend instances may send, all together
MaxReports == 1
\* threads that call Cancel() (each once)
NumCancelThreads == 2
\* threads that call Wait() (each once)
NumWaitThreads == 2
\* row batches the local executor can hand out before end of stream
MaxBatches == 1
\* scan ranges of a scan node
MaxRanges == 3
\* locations of a scan range
MaxLocations == 2

\* ------------------------------------------------------------------ inputs
\* hosts per remote fragment (the fragments Exec dispatches, in index order)
HostPlans == { <<2>>, <<1, 1>> }

\* a query request: has_coordinator_fragment and the host plan
Requests ==
  [ coord : BOOLEAN, hosts : HostPlans ]

RECURSIVE SumSeq(_)
SumSeq(s) == IF s = <<>> THEN 0 ELSE Head(s) + SumSeq(Tail(s))

MaxOf(S) == CHOOSE x \in S : \A y \in S : y <= x

\* backend_num values (1-based in the model, 0-based in the code)
Instances == 1 .. MaxOf({ SumSeq(h) : h \in HostPlans })

\* ------------------------------------------------------------------ statuses
OK == "OK"
CANCELLED == "CANCELLED"
\* a transport failure of ExecPlanFragment after the retry (line 723)
RPC_ERROR == "RPC_ERROR"
\* GetClient / ReopenClient failed (lines 696, 713): returned, never stored
CLIENT_ERROR == "CLIENT_ERROR"
\* an error status carried by a status report
BACKEND_ERROR == "BACKEND_ERROR"
\* an error of the local executor (Prepare / Open / GetNext)
LOCAL_ERROR == "LOCAL_ERROR"
\* a filesystem error of FinalizeQuery
HDFS_ERROR == "HDFS_ERROR"

\* Status(TStatusCode::INTERNAL_ERROR, "unknown backend number"), line 833
INTERNAL_ERROR == "INTERNAL_ERROR"
\* the error of scheduler()->GetHosts (line 1164)
SCHEDULER_ERROR == "SCHEDULER_ERROR"

Statuses ==
  { OK, CANCELLED, RPC_ERROR, CLIENT_ERROR, BACKEND_ERROR, LOCAL_ERROR,
    HDFS_ERROR, INTERNAL_ERROR, SCHEDULER_ERROR }

\* ------------------------------------------------------------------ threads
NoThread == <<"none", 0>>
ExecT == <<"exec", 0>>
GetNextT == <<"getnext", 0>>
DispatchT(i) == <<"dispatch", i>>
ReportT(i) == <<"report", i>>
CancelT(c) == <<"cancel", c>>
WaitT(w) == <<"wait", w>>
\* the RPC thread that serves a status report with an unknown backend_num
StrayT == <<"stray", 0>>

CancelThreads == { CancelT(c) : c \in 1 .. NumCancelThreads }
WaitThreads == { WaitT(w) : w \in 1 .. NumWaitThreads }
ReportThreads == { ReportT(i) : i \in Instances }
DispatchThreads == { DispatchT(i) : i \in Instances }
Threads ==
  {ExecT, GetNextT, StrayT} \cup CancelThreads \cup WaitThreads
    \cup ReportThreads \cup DispatchThreads

VARIABLES
  request,                  \* the TQueryExecRequest given to Exec
  release,                  \* TRUE once the run is known to be of a build
                            \* without DCHECKs (a failed DCHECK was passed)
  crashed,                  \* "no", "dcheck" (a DCHECK aborted), "segv",
                            \* "trap" (a signed overflow trapped)
  lock_,                    \* owner of Coordinator::lock_
  wait_lock_,               \* owner of Coordinator::wait_lock_
  query_status_,
  has_called_wait_,
  executor_,                \* the local PlanFragmentExecutor
  num_backends_,
  num_remaining_backends_,
  backend_exec_states_,     \* sequence of BackendExecState (or NULL)
  fragment_idx,             \* Exec's loop over the remote fragments (1-based)
  cancel_idx,               \* loop variable i of CancelInternal; 0: not running
  pc,                       \* position of each thread
  local,                    \* each thread's local Status / return value
  params,                   \* the TReportExecStatusParams of each report in flight
  backend,                  \* the remote fragment instances
  hist,                     \* what has been observed at the interface
  stray_backend_num,        \* params.backend_num of the report served by StrayT
  \* one call of ComputeScanRangeAssignment(node_id, locations, params,
  \* assignment), lines 1255-1313
  node_id,                  \* the scan node
  locations,                \* its scan ranges, each with its locations
  exec_params,              \* the fragment's hosts and data_server_map
  range_idx,                \* the outer loop's position in locations; 0: no call
  assigned_bytes_per_host,  \* data host -> bytes assigned so far
  assignment,               \* exec host -> node id -> scan range params
  partition_row_counts_,    \* partition key -> rows appended, query-wide
  files_to_move_,           \* the tmp files to move at finalization
  \* one call of a function of the coordinator that is checked by itself:
  \* name says which function, the other fields are the call's arguments,
  \* locals and the members it updates, under their names in the code
  call

vars ==
  << release, crashed, lock_, wait_lock_, query_status_, has_called_wait_,
     executor_, num_backends_, num_remaining_backends_,
     backend_exec_states_, fragment_idx, cancel_idx, pc, local, params,
     backend, hist, request, stray_backend_num, node_id, locations,
     exec_params, range_idx, assigned_bytes_per_host, assignment,
     partition_row_counts_, files_to_move_, call >>

\* the coordinator's own state, but for release and crashed
coordVars ==
  << lock_, wait_lock_, query_status_, has_called_wait_, executor_,
     num_backends_, num_remaining_backends_, backend_exec_states_,
     fragment_idx, cancel_idx, pc, local, params, backend, hist, request,
     partition_row_counts_, files_to_move_ >>

\* the query-wide insert state (lines 874-878)
insertVars ==
  << partition_row_counts_, files_to_move_ >>

\* the state of a call of ComputeScanRangeAssignment
scanVars ==
  << node_id, locations, exec_params, range_idx, assigned_bytes_per_host,
     assignment >>

\* the state of the calls that are checked one at a time
callVars ==
  << scanVars, call >>

\* everything but release, crashed and scanVars
exceptScanVars ==
  << coordVars, stray_backend_num, call >>

\* everything but release, crashed and call
exceptCall ==
  << coordVars, stray_backend_num, scanVars >>

\* ------------------------------------------------------------------ helpers
\* a slot of backend_exec_states_ after resize() and before construction
NullState ==
  [ constructed |-> FALSE, fragment_idx |-> 0, lock |-> NoThread,
    status |-> OK, initiated |-> FALSE, done |-> FALSE, backend_num |-> -1 ]

\* BackendExecState's constructor (lines 108-124); backend_num is what
\* SetExecPlanFragmentParams puts into rpc_params (line 1331)
NewBackendExecState(fidx, backend_num) ==
  [ constructed |-> TRUE, fragment_idx |-> fidx, lock |-> NoThread,
    status |-> OK, initiated |-> FALSE, done |-> FALSE,
    backend_num |-> backend_num ]

\* index (into request.hosts) of the remote fragment that owns backend_num i
RECURSIVE FragOfFrom(_, _, _)
FragOfFrom(hosts, i, f) ==
  IF f > Len(hosts) THEN 0
  ELSE IF i <= hosts[f] THEN f
  ELSE FragOfFrom(hosts, i - hosts[f], f + 1)

FragOf(i) == FragOfFrom(request.hosts, i, 1)

\* the backend_nums of remote fragment f
InstancesOf(f) == { i \in 1 .. SumSeq(request.hosts) : FragOf(i) = f }

\* fragment_idx of remote fragment f in request.fragments
FragmentIdx(f) == IF request.coord THEN f ELSE f - 1

Ok(s) == s = OK

NumInstances == SumSeq(request.hosts)

\* ------------------------------------------------------------------ Init
NoParams == [ status |-> OK, done |-> FALSE, backend_num |-> -1 ]

\* no report with an unknown backend_num has been served
NoBackendNum == -1000

\* Coordinator::Coordinator, before Exec is called
CoordinatorInit ==
  /\ request \in Requests
  /\ release = FALSE
  /\ crashed = "no"
  /\ lock_ = NoThread
  /\ wait_lock_ = NoThread
  /\ query_status_ = OK
  /\ has_called_wait_ = FALSE
  /\ executor_ = [ state |-> "NULL", cancelled |-> FALSE, batches |-> 0 ]
  /\ num_backends_ = 0
  /\ num_remaining_backends_ = 0
  /\ partition_row_counts_ = << >>
  /\ files_to_move_ = {}
  /\ backend_exec_states_ = <<>>
  /\ fragment_idx = 0
  /\ cancel_idx = 0
  /\ pc = [ t \in Threads |-> IF t = ExecT THEN "start" ELSE "idle" ]
  /\ local = [ t \in Threads |-> OK ]
  /\ params = [ i \in Instances |-> NoParams ]
  /\ backend =
       [ i \in Instances |->
           [ started |-> FALSE, reports |-> 0, final |-> FALSE,
             cancel_rpcs |-> 0, backend_num |-> -1 ] ]
  /\ hist =
       [ exec_ret |-> "none", dispatch_failed |-> FALSE,
         cancel_by |-> <<>>, first_wait |-> NoThread, open_calls |-> 0,
         finalize_calls |-> 0, eos |-> FALSE, scheduler |-> OK ]
  /\ stray_backend_num = NoBackendNum

\* no call of ComputeScanRangeAssignment is under way
NoScanRangeAssignment ==
  /\ node_id = 0
  /\ locations = <<>>
  /\ exec_params = [ hosts |-> <<>>, data_server_map |-> <<>> ]
  /\ range_idx = 0
  /\ assigned_bytes_per_host = <<>>
  /\ assignment = <<>>

\* no function is being checked by itself
NoCall == call = [ name |-> "none" ]

Init == CoordinatorInit /\ NoScanRangeAssignment /\ NoCall

\* ------------------------------------------------------------------ Exec
\* CancelInternal, line 750: cancel the local fragment, if there is one
CancelledExecutor(ex) ==
  IF ex.state = "NULL" THEN ex ELSE [ex EXCEPT !.cancelled = TRUE]

\* A DCHECK whose condition is FALSE aborts a build that has DCHECKs compiled
\* in; a build without them goes on. Which build runs is settled by the first
\* DCHECK that fails.
DcheckMayAbort(cond) == ~cond /\ ~release

ReleaseAfterDcheck(cond) == release \/ ~cond

\* what scheduler()->GetHosts can return (line 1164); on an error it leaves
\* the fragment's host list empty
GetHostsOutcomes == {OK, SCHEDULER_ERROR}

\* ComputeFragmentHosts (lines 1117-1177) walks the fragments from the last to
\* the first and returns at the first GetHosts error: when the call for remote
\* fragment failed fails, that fragment and the ones before it have no hosts
\* (failed = 0: no call fails)
HostsAfterScheduler(hosts, failed) ==
  [ f \in 1 .. Len(hosts) |-> IF f > failed THEN hosts[f] ELSE 0 ]

\* ComputeFragmentExecParams lines 1057-1073: num_backends_ is the number of
\* hosts of all fragments, less one if the root fragment is unpartitioned
\* (hosts: of the remote fragments; the root runs on one host, the
\* coordinator, if ComputeFragmentHosts got to it)
NumBackends(hosts, coord, failed) ==
  SumSeq(hosts) + (IF coord /\ failed = 0 THEN 1 ELSE 0)
    - (IF coord THEN 1 ELSE 0)

\* Exec up to the acquisition of lock_ (lines 214-235): no lock is held while
\* ComputeFragmentExecParams sets num_backends_. ComputeFragmentExecParams
\* returns void: the status of ComputeFragmentHosts is dropped at line 1054,
\* and ComputeScanRangeAssignment (line 230) runs on whatever hosts there are.
\* For the scan node of a fragment left without hosts it fails
\* DCHECK_GT(params.hosts.size(), 0) (line 1279) or, without DCHECKs,
\* dereferences data_server_map.end() (line 1286).
ExecPlan ==
  /\ crashed = "no"
  /\ pc[ExecT] = "start"
  /\ \E failed \in 0 .. Len(request.hosts) :
       \E st \in (IF failed = 0 THEN {OK} ELSE GetHostsOutcomes \ {OK}) :
         /\ hist' = [hist EXCEPT !.scheduler = st]
         /\ num_backends_' =
              NumBackends(HostsAfterScheduler(request.hosts, failed),
                          request.coord, failed)
         /\ IF Ok(st)
            THEN /\ pc' = [pc EXCEPT ![ExecT] = "acquire"]
                 /\ UNCHANGED << release, crashed >>
            ELSE /\ \/ /\ DcheckMayAbort(FALSE)
                       /\ crashed' = "dcheck"
                       /\ UNCHANGED release
                    \/ /\ release' = ReleaseAfterDcheck(FALSE)
                       /\ crashed' = "segv"
                 /\ UNCHANGED pc
  /\ UNCHANGED << stray_backend_num, callVars, insertVars >>
  /\ UNCHANGED << request, lock_, wait_lock_, query_status_,
                  has_called_wait_, executor_, num_remaining_backends_,
                  backend_exec_states_, fragment_idx, cancel_idx, local,
                  params, backend >>

\* Exec lines 240-311: take lock_, prepare the local executor (r is what
\* Prepare returns), resize backend_exec_states_ to num_backends_ NULL slots
ExecPrepare ==
  /\ crashed = "no"
  /\ pc[ExecT] = "acquire"
  /\ lock_ = NoThread
  /\ \E r \in (IF request.coord THEN {OK, LOCAL_ERROR} ELSE {OK}) :
       /\ executor_' =
            IF request.coord
            THEN [ state |-> IF Ok(r) THEN "prepared" ELSE "created",
                   cancelled |-> FALSE, batches |-> 0 ]
            ELSE executor_
       /\ IF Ok(r)
          THEN /\ lock_' = ExecT
               /\ backend_exec_states_' =
                    [ i \in 1 .. num_backends_ |-> NullState ]
               /\ num_remaining_backends_' = num_backends_
               /\ fragment_idx' = 1
               /\ pc' = [pc EXCEPT ![ExecT] = "create"]
               /\ UNCHANGED hist
          ELSE \* RETURN_IF_ERROR(executor_->Prepare(rpc_params)), line 257
               /\ pc' = [pc EXCEPT ![ExecT] = "returned"]
               /\ hist' = [hist EXCEPT !.exec_ret = r]
               /\ UNCHANGED << lock_, backend_exec_states_,
                               num_remaining_backends_, fragment_idx >>
  /\ UNCHANGED << stray_backend_num, callVars, insertVars >>
  /\ UNCHANGED << request, release, crashed, wait_lock_, query_status_,
                  has_called_wait_, num_backends_, cancel_idx, local, params,
                  backend >>

\* an Exec that counts the backend_num of the constructor from 1
ConstructorBackendNumFromOne(slot) == slot + 1

\* Exec lines 323-327: the backend_num given to the constructor of the exec
\* state that is stored in backend_exec_states_[slot] (slot counts from 0);
\* both are the loop's counter backend_num
ConstructorBackendNum(slot) == slot

\* Exec lines 315-337: construct the exec states of fragment fragment_idx and
\* hand them to ParallelExecutor::Exec. The counter backend_num stands at the
\* number of exec states constructed so far.
ExecCreateStates ==
  /\ crashed = "no"
  /\ pc[ExecT] = "create"
  /\ LET backend_num ==
           Cardinality({ k \in DOMAIN backend_exec_states_ :
                           backend_exec_states_[k].constructed })
         num_hosts == request.hosts[fragment_idx]
     IN backend_exec_states_' =
          [ k \in 1 .. Len(backend_exec_states_) |->
              IF k - 1 \in backend_num .. backend_num + num_hosts - 1
              THEN NewBackendExecState(FragmentIdx(fragment_idx),
                                       ConstructorBackendNum(k - 1))
              ELSE backend_exec_states_[k] ]
  /\ pc' = [ t \in Threads |->
             IF t = ExecT THEN "dispatch"
             ELSE IF \E i \in InstancesOf(fragment_idx) : t = DispatchT(i)
                  THEN "call"
                  ELSE pc[t] ]
  /\ UNCHANGED << stray_backend_num, callVars, insertVars >>
  /\ UNCHANGED << request, release, crashed, lock_, wait_lock_, query_status_,
                  has_called_wait_, executor_, num_backends_,
                  num_remaining_backends_, fragment_idx, cancel_idx, local,
                  params, backend, hist >>

\* ExecRemoteFragment lines 689-702: take the instance lock, get a client
\* (client: GetClient succeeded) and send ExecPlanFragment; accepted: the
\* backend got the request and started the fragment instance
ExecRemoteFragmentCall(i) ==
  /\ crashed = "no"
  /\ pc[DispatchT(i)] = "call"
  /\ backend_exec_states_[i].lock = NoThread
  /\ \E client \in BOOLEAN :
       IF ~client
       THEN \* RETURN_IF_ERROR(GetClient), line 696
            /\ pc' = [pc EXCEPT ![DispatchT(i)] = "done"]
            /\ local' = [local EXCEPT ![DispatchT(i)] = CLIENT_ERROR]
            /\ UNCHANGED << backend_exec_states_, backend >>
       ELSE /\ pc' = [pc EXCEPT ![DispatchT(i)] = "rpc"]
            /\ backend_exec_states_' =
                 [backend_exec_states_ EXCEPT ![i].lock = DispatchT(i)]
            /\ \E accepted \in BOOLEAN :
                 backend' =
                   [backend EXCEPT
                      ![i].started = accepted,
                      ![i].backend_num =
                        IF accepted THEN backend_exec_states_[i].backend_num
                                    ELSE @]
            /\ UNCHANGED local
  /\ UNCHANGED << stray_backend_num, callVars, insertVars >>
  /\ UNCHANGED << request, release, crashed, lock_, wait_lock_, query_status_,
                  has_called_wait_, executor_, num_backends_,
                  num_remaining_backends_, fragment_idx, cancel_idx, params,
                  hist >>

\* what ExecRemoteFragment can return once the RPC was sent: OK after the
\* backend accepted; else the error of a failed reopen (line 713), of a second
\* transport failure (line 725) or the non-OK status of the result (line 733)
DispatchResults(accepted) ==
  IF accepted THEN {OK} ELSE {CLIENT_ERROR, RPC_ERROR, BACKEND_ERROR}

\* an ExecRemoteFragment that returns with the instance lock still taken
ExecRemoteFragmentStoreKeepsLock(es, r) ==
  IF r = CLIENT_ERROR
  THEN es
  ELSE [es EXCEPT !.status = r, !.initiated = (es.initiated \/ Ok(r))]

\* an ExecRemoteFragment that sets initiated whatever the status it stores
ExecRemoteFragmentStoreInitiates(es, r) ==
  IF r = CLIENT_ERROR
  THEN [es EXCEPT !.lock = NoThread]
  ELSE [es EXCEPT !.lock = NoThread, !.status = r, !.initiated = TRUE]

\* ExecRemoteFragment lines 710-733: what the call leaves in the exec state
\* when it returns r (a failed reopen returns without storing a status)
ExecRemoteFragmentStore(es, r) ==
  IF r = CLIENT_ERROR
  THEN [es EXCEPT !.lock = NoThread]
  ELSE [es EXCEPT !.lock = NoThread, !.status = r,
                  !.initiated = (es.initiated \/ Ok(r))]

ExecRemoteFragmentReturn(i) ==
  /\ crashed = "no"
  /\ pc[DispatchT(i)] = "rpc"
  /\ \E r \in DispatchResults(backend[i].started) :
       /\ backend_exec_states_' =
            [backend_exec_states_ EXCEPT ![i] = ExecRemoteFragmentStore(@, r)]
       /\ local' = [local EXCEPT ![DispatchT(i)] = r]
  /\ pc' = [pc EXCEPT ![DispatchT(i)] = "done"]
  /\ UNCHANGED << stray_backend_num, callVars, insertVars >>
  /\ UNCHANGED << request, release, crashed, lock_, wait_lock_, query_status_,
                  has_called_wait_, executor_, num_backends_,
                  num_remaining_backends_, fragment_idx, cancel_idx,
                  params, backend, hist >>

\* ParallelExecutor::Exec: OK when every call returned OK, else the status of
\* one of the failed calls
ParallelExecutorStatus(S) ==
  IF \A i \in S : Ok(local[DispatchT(i)])
  THEN {OK}
  ELSE { local[DispatchT(i)] : i \in { j \in S : ~Ok(local[DispatchT(j)]) } }

\* CancelInternal lines 745-750, run by thread t (which holds lock_)
BeginCancelInternal(t) ==
  /\ cancel_idx' = 1
  /\ executor_' = CancelledExecutor(executor_)

\* a line 341 that sets CANCELLED instead of the dispatch error
DispatchFailureStatusCancelled(qs, st) == CANCELLED

\* Exec line 341: query_status_ = fragments_exec_status, whatever it held (qs)
DispatchFailureStatus(qs, st) == st

\* an Exec that goes on to the next fragment whatever ParallelExecutor::Exec
\* returned
ExecJoinStatusGoesOn(st) ==
  /\ IF fragment_idx < Len(request.hosts)
     THEN /\ fragment_idx' = fragment_idx + 1
          /\ pc' = [ t \in Threads |->
                     IF t = ExecT THEN "create"
                     ELSE IF t \in DispatchThreads THEN "idle" ELSE pc[t] ]
          /\ UNCHANGED << lock_, hist >>
     ELSE /\ pc' = [ t \in Threads |->
                     IF t = ExecT THEN "returned"
                     ELSE IF t \in DispatchThreads THEN "idle" ELSE pc[t] ]
          /\ lock_' = NoThread
          /\ hist' = [hist EXCEPT !.exec_ret = OK]
          /\ UNCHANGED fragment_idx
  /\ UNCHANGED << release, crashed, query_status_, executor_, cancel_idx >>

\* Exec lines 339-356, after ParallelExecutor::Exec returned st
ExecJoinStatus(st) ==
  IF Ok(st)
  THEN /\ IF fragment_idx < Len(request.hosts)
          THEN /\ fragment_idx' = fragment_idx + 1
               /\ pc' = [ t \in Threads |->
                          IF t = ExecT THEN "create"
                          ELSE IF t \in DispatchThreads THEN "idle" ELSE pc[t] ]
               /\ UNCHANGED << lock_, hist >>
          ELSE /\ pc' = [ t \in Threads |->
                          IF t = ExecT THEN "returned"
                          ELSE IF t \in DispatchThreads THEN "idle" ELSE pc[t] ]
               /\ lock_' = NoThread
               /\ hist' = [hist EXCEPT !.exec_ret = OK]
               /\ UNCHANGED fragment_idx
       /\ UNCHANGED << release, crashed, query_status_, executor_, cancel_idx >>
  ELSE \/ \* DCHECK(query_status_.ok()), line 340
          /\ DcheckMayAbort(Ok(query_status_))
          /\ crashed' = "dcheck"
          /\ hist' = [hist EXCEPT !.dispatch_failed = TRUE]
          /\ UNCHANGED << release, lock_, fragment_idx, pc, query_status_,
                          executor_, cancel_idx >>
       \/ /\ release' = ReleaseAfterDcheck(Ok(query_status_))
          /\ query_status_' = DispatchFailureStatus(query_status_, st)
          /\ BeginCancelInternal(ExecT)
          /\ pc' = [ t \in Threads |->
                     IF t = ExecT THEN "cancel"
                     ELSE IF t \in DispatchThreads THEN "idle" ELSE pc[t] ]
          /\ hist' = [hist EXCEPT !.dispatch_failed = TRUE,
                                  !.cancel_by = Append(@, ExecT)]
          /\ UNCHANGED << crashed, lock_, fragment_idx >>

ExecJoin ==
  /\ crashed = "no"
  /\ pc[ExecT] = "dispatch"
  /\ \A i \in InstancesOf(fragment_idx) : pc[DispatchT(i)] = "done"
  /\ \E st \in ParallelExecutorStatus(InstancesOf(fragment_idx)) :
       /\ ExecJoinStatus(st)
       /\ local' = [ t \in Threads |->
                     IF t = ExecT THEN st
                     ELSE IF t \in DispatchThreads THEN OK ELSE local[t] ]
  /\ UNCHANGED << stray_backend_num, callVars, insertVars >>
  /\ UNCHANGED << request, wait_lock_, has_called_wait_,
                  num_backends_, num_remaining_backends_,
                  backend_exec_states_, params, backend >>

\* The threads that call Cancel (and those that call Wait) are
\* interchangeable: thread n+1 of a kind makes its call after thread n made its
\* own, which leaves out only runs that differ in the threads' names
CallsInOrder(t) ==
  IF t[2] = 1 THEN TRUE ELSE pc[<<t[1], t[2] - 1>>] # "idle"

\* ------------------------------------------------------------------ Cancel
\* a Cancel without the test of line 739
CancelProceedsAlways(qs) == TRUE

\* Cancel line 739: only a query whose status is still OK is cancelled
CancelProceeds(qs) == Ok(qs)

\* Cancel (lines 736-743) up to the loop of CancelInternal
CancelCall(c) ==
  /\ crashed = "no"
  /\ pc[CancelT(c)] = "idle"
  /\ CallsInOrder(CancelT(c))
  /\ lock_ = NoThread
  /\ IF CancelProceeds(query_status_)
     THEN /\ query_status_' = CANCELLED
          /\ lock_' = CancelT(c)
          /\ BeginCancelInternal(CancelT(c))
          /\ pc' = [pc EXCEPT ![CancelT(c)] = "cancel"]
          /\ hist' = [hist EXCEPT !.cancel_by = Append(@, CancelT(c))]
     ELSE /\ pc' = [pc EXCEPT ![CancelT(c)] = "done"]
          /\ UNCHANGED << query_status_, lock_, cancel_idx, executor_, hist >>
  /\ UNCHANGED << stray_backend_num, callVars, insertVars >>
  /\ UNCHANGED << request, release, crashed, wait_lock_, has_called_wait_,
                  num_backends_, num_remaining_backends_,
                  backend_exec_states_, fragment_idx, local, params, backend >>

\* a loop without the tests of lines 761, 767 and 770
CancelDecisionAlwaysSend(es) == "send"

\* CancelInternal lines 760-770: what the loop does with one exec state
CancelDecision(es) ==
  IF ~Ok(es.status) THEN "skip_status"
  ELSE IF ~es.initiated THEN "skip_not_initiated"
  ELSE IF es.done THEN "skip_done"
  ELSE "send"

\* CancelInternal lines 761-764: the status the visit leaves behind
CancelMark(es) ==
  IF Ok(es.status) THEN [es EXCEPT !.status = CANCELLED] ELSE es

\* One iteration of CancelInternal's loop (lines 752-781) by thread t, up to
\* the CancelPlanFragment RPC. A slot that is still NULL is dereferenced at
\* line 758: the process dies with SIGSEGV.
CancelInternalVisit(t) ==
  /\ crashed = "no"
  /\ lock_ = t
  /\ pc[t] = "cancel"
  /\ cancel_idx \in 1 .. Len(backend_exec_states_)
  /\ LET i == cancel_idx
         es == backend_exec_states_[i]
     IN IF ~es.constructed
        THEN /\ crashed' = "segv"
             /\ UNCHANGED << backend_exec_states_, cancel_idx, pc, backend >>
        ELSE /\ es.lock = NoThread
             /\ crashed' = crashed
             /\ IF CancelDecision(es) # "send"
                THEN /\ backend_exec_states_' =
                          [backend_exec_states_ EXCEPT ![i] = CancelMark(es)]
                     /\ backend' = backend
                     /\ cancel_idx' = i + 1
                     /\ pc' = pc
                ELSE \E client \in BOOLEAN :
                       IF client
                       THEN /\ backend_exec_states_' =
                                 [backend_exec_states_ EXCEPT
                                    ![i] = [CancelMark(es) EXCEPT !.lock = t]]
                            /\ backend' =
                                 [backend EXCEPT ![i].cancel_rpcs = @ + 1]
                            /\ pc' = [pc EXCEPT ![t] = "cancel_rpc"]
                            /\ cancel_idx' = i
                       ELSE \* GetClient failed, lines 779-781
                            /\ backend_exec_states_' =
                                 [backend_exec_states_ EXCEPT ![i] = CancelMark(es)]
                            /\ backend' = backend
                            /\ cancel_idx' = i + 1
                            /\ pc' = pc
  /\ UNCHANGED << stray_backend_num, callVars, insertVars >>
  /\ UNCHANGED << request, release, lock_, wait_lock_, query_status_,
                  has_called_wait_, executor_, num_backends_,
                  num_remaining_backends_, fragment_idx, local, params, hist >>

\* CancelInternal lines 788-819: the CancelPlanFragment RPC (with its retry)
\* returns, the instance lock is released, the loop goes on
CancelInternalRpcReturn(t) ==
  /\ crashed = "no"
  /\ lock_ = t
  /\ pc[t] = "cancel_rpc"
  /\ backend_exec_states_' =
       [backend_exec_states_ EXCEPT ![cancel_idx].lock = NoThread]
  /\ cancel_idx' = cancel_idx + 1
  /\ pc' = [pc EXCEPT ![t] = "cancel"]
  /\ UNCHANGED << stray_backend_num, callVars, insertVars >>
  /\ UNCHANGED << request, release, crashed, lock_, wait_lock_, query_status_,
                  has_called_wait_, executor_, num_backends_,
                  num_remaining_backends_, fragment_idx, local, params,
                  backend, hist >>

\* backend_completion_cv_.notify_all(): every thread in the wait set of the
\* condition variable goes back to re-acquire lock_ and test its condition
NotifyAll(p) ==
  [ t \in Threads |-> IF p[t] = "wfab_wait" THEN "wfab_check" ELSE p[t] ]

\* CancelInternal lines 821-826 are reached by thread t
CancelInternalAtEnd(t) ==
  /\ lock_ = t
  /\ pc[t] = "cancel"
  /\ cancel_idx = Len(backend_exec_states_) + 1

\* Exec lines 343-344: CancelInternal has returned, Exec returns the error
ExecCancelReturn ==
  /\ crashed = "no"
  /\ CancelInternalAtEnd(ExecT)
  /\ cancel_idx' = 0
  /\ lock_' = NoThread
  /\ pc' = [NotifyAll(pc) EXCEPT ![ExecT] = "returned"]
  /\ hist' = [hist EXCEPT !.exec_ret = local[ExecT]]
  /\ UNCHANGED << stray_backend_num, callVars, insertVars >>
  /\ UNCHANGED << request, release, crashed, wait_lock_, query_status_,
                  has_called_wait_, executor_, num_backends_,
                  num_remaining_backends_, backend_exec_states_, fragment_idx,
                  local, params, backend >>

\* Cancel line 743: CancelInternal has returned, Cancel returns
CancelReturn(c) ==
  /\ crashed = "no"
  /\ CancelInternalAtEnd(CancelT(c))
  /\ cancel_idx' = 0
  /\ lock_' = NoThread
  /\ pc' = [NotifyAll(pc) EXCEPT ![CancelT(c)] = "done"]
  /\ UNCHANGED << stray_backend_num, callVars, insertVars >>
  /\ UNCHANGED << request, release, crashed, wait_lock_, query_status_,
                  has_called_wait_, executor_, num_backends_,
                  num_remaining_backends_, backend_exec_states_, fragment_idx,
                  local, params, backend, hist >>

\* ------------------------------------------------------------------ status reports
\* the reports a running instance can send next: periodic ones (done=false),
\* then one final report (done=true) with OK or with an error
NextReports(sent) ==
  (IF sent < MaxReports THEN { [ status |-> OK, done |-> FALSE ] } ELSE {})
    \cup { [ status |-> OK, done |-> TRUE ],
           [ status |-> BACKEND_ERROR, done |-> TRUE ] }

\* A remote instance calls ReportExecStatus: the call is synchronous, so an
\* instance has at most one report in flight, and none after its final one
BackendSendReport(i) ==
  /\ crashed = "no"
  /\ backend[i].started
  /\ ~backend[i].final
  /\ pc[ReportT(i)] = "idle"
  /\ \E p \in NextReports(SumSeq([ j \in Instances |-> backend[j].reports ])) :
       /\ params' = [params EXCEPT
                       ![i] = [ status |-> p.status, done |-> p.done,
                                backend_num |-> backend[i].backend_num ]]
       /\ backend' = [backend EXCEPT
                        ![i].final = p.done,
                        ![i].reports = IF p.done THEN @ ELSE @ + 1]
  /\ pc' = [pc EXCEPT ![ReportT(i)] = "recv"]
  /\ UNCHANGED << stray_backend_num, callVars, insertVars >>
  /\ UNCHANGED << request, release, crashed, lock_, wait_lock_, query_status_,
                  has_called_wait_, executor_, num_backends_,
                  num_remaining_backends_, backend_exec_states_, fragment_idx,
                  cancel_idx, local, hist >>

\* UpdateFragmentExecStatus line 842: DCHECK(!status.ok() || exec_state->status.ok())
ReportDcheckHolds(es, p) == ~Ok(p.status) \/ Ok(es.status)

\* UpdateFragmentExecStatus lines 847-848
ReportStore(es, p) == [es EXCEPT !.status = p.status, !.done = p.done]

\* params.__isset.insert_exec_status (line 867): the final report of an
\* instance carries insert state exactly if the instance has a table sink,
\* which it has only in a query without coordinator fragment (lines 507-508,
\* 516-519)
InsertExecStatusIsSet == ~request.coord

\* params.insert_exec_status of instance i's final report: i rows appended
\* to the one partition p, and one tmp file of its own to move
NumAppendedRows(i) == "p" :> i

FilesToMove(i) == { i }

\* a merge that keeps the row count of the last report
AddRowCountsLast(counts, appended) == appended @@ counts

\* lines 872-875: partition_row_counts_[partition.first] += partition.second
\* for every partition of the report (a key not yet there starts at 0)
AddRowCounts(counts, appended) ==
  [ k \in DOMAIN counts \cup DOMAIN appended |->
      (IF k \in DOMAIN counts THEN counts[k] ELSE 0)
        + (IF k \in DOMAIN appended THEN appended[k] ELSE 0) ]

\* UpdateFragmentExecStatus lines 832-865, serving the report of instance i:
\* the exec state is looked up under the report's backend_num (line 835; a
\* backend_num that the unsigned comparison of line 832 finds past the end
\* is answered with an error, line 833) and updated under its lock
UpdateFragmentExecStatusLocked(i) ==
  /\ crashed = "no"
  /\ pc[ReportT(i)] = "recv"
  /\ IF \/ params[i].backend_num < 0
        \/ params[i].backend_num >= Len(backend_exec_states_)
     THEN /\ pc' = [pc EXCEPT ![ReportT(i)] = "idle"]
          /\ params' = [params EXCEPT ![i] = NoParams]
          /\ UNCHANGED << release, crashed, backend_exec_states_ >>
     ELSE LET n == params[i].backend_num + 1
              exec_state == backend_exec_states_[n]
          IN /\ exec_state.lock = NoThread
             /\ \/ /\ DcheckMayAbort(ReportDcheckHolds(exec_state, params[i]))
                   /\ crashed' = "dcheck"
                   /\ UNCHANGED << release, backend_exec_states_, pc, params >>
                \/ /\ release' =
                        ReleaseAfterDcheck(ReportDcheckHolds(exec_state,
                                                             params[i]))
                   /\ backend_exec_states_' =
                        [backend_exec_states_ EXCEPT
                           ![n] = ReportStore(@, params[i])]
                   /\ IF Ok(params[i].status) /\ ~params[i].done
                      THEN \* nothing left to do: return Status::OK, line 928
                           /\ pc' = [pc EXCEPT ![ReportT(i)] = "idle"]
                           /\ params' = [params EXCEPT ![i] = NoParams]
                      ELSE /\ pc' = [pc EXCEPT ![ReportT(i)] =
                                      IF params[i].done /\ InsertExecStatusIsSet
                                      THEN "merge" ELSE "post"]
                           /\ params' = params
                   /\ crashed' = crashed
  /\ UNCHANGED << stray_backend_num, callVars, insertVars >>
  /\ UNCHANGED << request, lock_, wait_lock_, query_status_,
                  has_called_wait_, executor_, num_backends_,
                  num_remaining_backends_, fragment_idx, cancel_idx, local,
                  backend, hist >>

\* UpdateFragmentExecStatus lines 867-879: the insert state of a final report
\* is merged into the query-wide maps under lock_, whatever the report's
\* status
UpdateFragmentExecStatusMerge(i) ==
  /\ crashed = "no"
  /\ pc[ReportT(i)] = "merge"
  /\ lock_ = NoThread
  /\ partition_row_counts_' =
       AddRowCounts(partition_row_counts_, NumAppendedRows(i))
  /\ files_to_move_' = files_to_move_ \cup FilesToMove(i)
  /\ pc' = [pc EXCEPT ![ReportT(i)] = "post"]
  /\ UNCHANGED << stray_backend_num, callVars >>
  /\ UNCHANGED << request, release, crashed, lock_, wait_lock_, query_status_,
                  has_called_wait_, executor_, num_backends_,
                  num_remaining_backends_, backend_exec_states_, fragment_idx,
                  cancel_idx, local, params, backend, hist >>

\* the backend_num values of the reports served by StrayT: negative, the
\* first instance's number, and one past the last instance's number
StrayBackendNums == { -1, 0, MaxOf({ SumSeq(h) : h \in HostPlans }) }

\* a test of line 832 that lets a backend_num equal to the size pass
UnknownBackendNumPastEnd(n, size) == n < 0 \/ n > size

\* UpdateFragmentExecStatus line 832: params.backend_num >= size(). The int
\* is converted to size_t for the comparison, so a negative backend_num
\* compares as a value above every size
UnknownBackendNum(n, size) == n < 0 \/ n >= size

\* UpdateFragmentExecStatus lines 828-835 for a report with backend_num n that
\* names no slot of backend_exec_states_ (the reports of the query's own
\* instances are served by UpdateFragmentExecStatusLocked): the report is
\* refused at line 833; were it not, line 835 would read past the vector's end
UpdateFragmentExecStatusUnknown ==
  /\ crashed = "no"
  /\ pc[StrayT] = "idle"
  /\ \E n \in StrayBackendNums :
       /\ ~(n \in 0 .. Len(backend_exec_states_) - 1)
       /\ stray_backend_num' = n
       /\ IF UnknownBackendNum(n, Len(backend_exec_states_))
          THEN /\ local' = [local EXCEPT ![StrayT] = INTERNAL_ERROR]
               /\ UNCHANGED crashed
          ELSE /\ crashed' = "segv"
               /\ UNCHANGED local
  /\ pc' = [pc EXCEPT ![StrayT] = "done"]
  /\ UNCHANGED << callVars, insertVars >>
  /\ UNCHANGED << request, release, lock_, wait_lock_, query_status_,
                  has_called_wait_, executor_, num_backends_,
                  num_remaining_backends_, backend_exec_states_, fragment_idx,
                  cancel_idx, params, backend, hist >>

\* an UpdateStatus without the test of line 370
UpdateStatusSetsEveryError(status, qs) == ~Ok(status)

\* UpdateStatus lines 367-370: only the first non-OK status is taken
UpdateStatusSets(status, qs) == ~Ok(status) /\ Ok(qs)

\* UpdateFragmentExecStatus lines 899-902: an error report goes through
\* UpdateStatus (lines 363-374), which takes lock_
UpdateFragmentExecStatusError(i) ==
  /\ crashed = "no"
  /\ pc[ReportT(i)] = "post"
  /\ ~Ok(params[i].status)
  /\ lock_ = NoThread
  /\ IF UpdateStatusSets(params[i].status, query_status_)
     THEN /\ query_status_' = params[i].status
          /\ lock_' = ReportT(i)
          /\ BeginCancelInternal(ReportT(i))
          /\ pc' = [pc EXCEPT ![ReportT(i)] = "cancel"]
          /\ hist' = [hist EXCEPT !.cancel_by = Append(@, ReportT(i))]
          /\ UNCHANGED params
     ELSE /\ pc' = [pc EXCEPT ![ReportT(i)] = "idle"]
          /\ params' = [params EXCEPT ![i] = NoParams]
          /\ UNCHANGED << query_status_, lock_, cancel_idx, executor_, hist >>
  /\ UNCHANGED << stray_backend_num, callVars, insertVars >>
  /\ UNCHANGED << request, release, crashed, wait_lock_, has_called_wait_,
                  num_backends_, num_remaining_backends_,
                  backend_exec_states_, fragment_idx, local, backend >>

\* UpdateStatus returns after CancelInternal; UpdateFragmentExecStatus
\* returns Status::OK (line 901)
ReportCancelReturn(i) ==
  /\ crashed = "no"
  /\ CancelInternalAtEnd(ReportT(i))
  /\ cancel_idx' = 0
  /\ lock_' = NoThread
  /\ pc' = [NotifyAll(pc) EXCEPT ![ReportT(i)] = "idle"]
  /\ params' = [params EXCEPT ![i] = NoParams]
  /\ UNCHANGED << stray_backend_num, callVars, insertVars >>
  /\ UNCHANGED << request, release, crashed, wait_lock_, query_status_,
                  has_called_wait_, executor_, num_backends_,
                  num_remaining_backends_, backend_exec_states_, fragment_idx,
                  local, backend, hist >>

\* a final report that counts for two
RemainingAfterDoneByTwo(n) == n - 2

\* UpdateFragmentExecStatus line 923: --num_remaining_backends_
RemainingAfterDone(n) == n - 1

\* UpdateFragmentExecStatus lines 904-926: a final OK report decrements
\* num_remaining_backends_ under lock_ and signals the condition at zero
UpdateFragmentExecStatusDone(i) ==
  /\ crashed = "no"
  /\ pc[ReportT(i)] = "post"
  /\ Ok(params[i].status)
  /\ params[i].done
  /\ lock_ = NoThread
  /\ \/ \* DCHECK_GT(num_remaining_backends_, 0), line 907
        /\ DcheckMayAbort(num_remaining_backends_ > 0)
        /\ crashed' = "dcheck"
        /\ UNCHANGED << release, num_remaining_backends_, pc, params >>
     \/ /\ release' = ReleaseAfterDcheck(num_remaining_backends_ > 0)
        /\ num_remaining_backends_' = RemainingAfterDone(num_remaining_backends_)
        /\ pc' = [ (IF RemainingAfterDone(num_remaining_backends_) = 0
                    THEN NotifyAll(pc) ELSE pc)
                   EXCEPT ![ReportT(i)] = "idle" ]
        /\ params' = [params EXCEPT ![i] = NoParams]
        /\ crashed' = crashed
  /\ UNCHANGED << stray_backend_num, callVars, insertVars >>
  /\ UNCHANGED << request, lock_, wait_lock_, query_status_,
                  has_called_wait_, executor_, num_backends_,
                  backend_exec_states_, fragment_idx, cancel_idx, local,
                  backend, hist >>

\* ------------------------------------------------------------------ WaitForAllBackends
\* a WaitForAllBackends that never waits
MustWaitNever(remaining, qs) == FALSE

\* a WaitForAllBackends that stops waiting one backend early
MustWaitButOne(remaining, qs) == remaining > 1 /\ Ok(qs)

\* WaitForAllBackends line 485: the condition under which the caller waits
MustWait(remaining, qs) == remaining > 0 /\ Ok(qs)

\* every backend instance has had a report with done=true stored
AllDone ==
  \A i \in 1 .. Len(backend_exec_states_) :
    backend_exec_states_[i].constructed /\ backend_exec_states_[i].done

\* ------------------------------------------------------------------ Wait
\* the statuses the local executor can return from Open / GetNext
ExecutorStatuses ==
  {OK, LOCAL_ERROR} \cup (IF executor_.cancelled THEN {CANCELLED} ELSE {})

\* Wait returns status r: wait_lock_ is released on the way out
WaitReturns(w, r) ==
  /\ wait_lock_' = NoThread
  /\ local' = [local EXCEPT ![WaitT(w)] = r]

\* a Wait without the test of line 495
WaitReturnsAtOnceNever(called) == FALSE

\* Wait line 495: if (has_called_wait_) return Status::OK
WaitReturnsAtOnce(called) == called

\* Wait lines 494-497. The caller calls Wait after Exec returned OK.
WaitCall(w) ==
  /\ crashed = "no"
  /\ pc[WaitT(w)] = "idle"
  /\ CallsInOrder(WaitT(w))
  /\ hist.exec_ret = OK
  /\ wait_lock_ = NoThread
  /\ IF WaitReturnsAtOnce(has_called_wait_)
     THEN /\ pc' = [pc EXCEPT ![WaitT(w)] = "done"]
          /\ WaitReturns(w, OK)
          /\ UNCHANGED << has_called_wait_, hist >>
     ELSE /\ has_called_wait_' = TRUE
          /\ wait_lock_' = WaitT(w)
          /\ pc' = [pc EXCEPT ![WaitT(w)] =
                      IF executor_.state # "NULL" THEN "open" ELSE "wfab_check"]
          /\ hist' = [hist EXCEPT !.first_wait = WaitT(w)]
          /\ UNCHANGED local
  /\ UNCHANGED << stray_backend_num, callVars, insertVars >>
  /\ UNCHANGED << request, release, crashed, lock_, query_status_, executor_,
                  num_backends_, num_remaining_backends_,
                  backend_exec_states_, fragment_idx, cancel_idx, params,
                  backend >>

\* Wait line 499: executor_->Open() returns r; no coordinator lock is held
WaitOpen(w) ==
  /\ crashed = "no"
  /\ pc[WaitT(w)] = "open"
  /\ \E r \in ExecutorStatuses :
       local' = [local EXCEPT ![WaitT(w)] = r]
  /\ executor_' = [executor_ EXCEPT !.state = "opened"]
  /\ hist' = [hist EXCEPT !.open_calls = @ + 1]
  /\ pc' = [pc EXCEPT ![WaitT(w)] = "update"]
  /\ UNCHANGED << stray_backend_num, callVars, insertVars >>
  /\ UNCHANGED << request, release, crashed, lock_, wait_lock_, query_status_,
                  has_called_wait_, num_backends_, num_remaining_backends_,
                  backend_exec_states_, fragment_idx, cancel_idx, params,
                  backend >>

\* Wait lines 524-528, once the query status was seen OK. needs_finalization_
\* is whether the request had finalize_params (line 215); line 524 is the one
\* place that reads it, so the request's choice is drawn here.
AfterWaitOk(w) ==
  \E needs_finalization_ \in BOOLEAN :
    IF needs_finalization_
    THEN /\ pc' = [pc EXCEPT ![WaitT(w)] = "finalize"]
         /\ UNCHANGED << wait_lock_, local >>
    ELSE /\ pc' = [pc EXCEPT ![WaitT(w)] = "done"]
         /\ WaitReturns(w, OK)

\* Wait line 499: RETURN_IF_ERROR(UpdateStatus(executor_->Open(), NULL)), and
\* lines 504-514 after an OK: the insert state of the coordinator fragment
\* (taken as that of an instance 0) is copied into the query-wide maps, which
\* no report has touched (InsertExecStatusIsSet)
WaitUpdateStatus(w) ==
  /\ crashed = "no"
  /\ pc[WaitT(w)] = "update"
  /\ lock_ = NoThread
  /\ IF UpdateStatusSets(local[WaitT(w)], query_status_)
     THEN /\ query_status_' = local[WaitT(w)]
          /\ lock_' = WaitT(w)
          /\ BeginCancelInternal(WaitT(w))
          /\ pc' = [pc EXCEPT ![WaitT(w)] = "cancel"]
          /\ hist' = [hist EXCEPT !.cancel_by = Append(@, WaitT(w))]
          /\ UNCHANGED << wait_lock_, local, insertVars >>
     ELSE /\ IF Ok(query_status_)
             THEN /\ AfterWaitOk(w)
                  /\ files_to_move_' = FilesToMove(0)
                  /\ partition_row_counts_' = NumAppendedRows(0)
             ELSE /\ pc' = [pc EXCEPT ![WaitT(w)] = "done"]
                  /\ WaitReturns(w, query_status_)
                  /\ UNCHANGED insertVars
          /\ UNCHANGED << query_status_, lock_, cancel_idx, executor_, hist >>
  /\ UNCHANGED << stray_backend_num, callVars >>
  /\ UNCHANGED << request, release, crashed, has_called_wait_, num_backends_,
                  num_remaining_backends_, backend_exec_states_, fragment_idx,
                  params, backend >>

\* UpdateStatus returns query_status_ after CancelInternal; Wait returns it
WaitCancelReturn(w) ==
  /\ crashed = "no"
  /\ CancelInternalAtEnd(WaitT(w))
  /\ cancel_idx' = 0
  /\ lock_' = NoThread
  /\ pc' = [NotifyAll(pc) EXCEPT ![WaitT(w)] = "done"]
  /\ WaitReturns(w, query_status_)
  /\ UNCHANGED << stray_backend_num, callVars, insertVars >>
  /\ UNCHANGED << request, release, crashed, query_status_, has_called_wait_,
                  executor_, num_backends_, num_remaining_backends_,
                  backend_exec_states_, fragment_idx, params, backend, hist >>

\* Wait line 520: RETURN_IF_ERROR(WaitForAllBackends()), lines 481-491: test
\* the condition under lock_, and wait on backend_completion_cv_ while it holds
WaitForAllBackendsInWait(w) ==
  /\ crashed = "no"
  /\ pc[WaitT(w)] = "wfab_check"
  /\ lock_ = NoThread
  /\ IF MustWait(num_remaining_backends_, query_status_)
     THEN /\ pc' = [pc EXCEPT ![WaitT(w)] = "wfab_wait"]
          /\ UNCHANGED << wait_lock_, local >>
     ELSE IF Ok(query_status_)
     THEN AfterWaitOk(w)
     ELSE /\ pc' = [pc EXCEPT ![WaitT(w)] = "done"]
          /\ WaitReturns(w, query_status_)
  /\ UNCHANGED << stray_backend_num, callVars, insertVars >>
  /\ UNCHANGED << request, release, crashed, lock_, query_status_,
                  has_called_wait_, executor_, num_backends_,
                  num_remaining_backends_, backend_exec_states_, fragment_idx,
                  cancel_idx, params, backend, hist >>

\* Wait line 525: return FinalizeQuery(); r is what the filesystem work gives
WaitFinalize(w) ==
  /\ crashed = "no"
  /\ pc[WaitT(w)] = "finalize"
  /\ \E r \in {OK, HDFS_ERROR} : WaitReturns(w, r)
  /\ hist' = [hist EXCEPT !.finalize_calls = @ + 1]
  /\ pc' = [pc EXCEPT ![WaitT(w)] = "done"]
  /\ UNCHANGED << stray_backend_num, callVars, insertVars >>
  /\ UNCHANGED << request, release, crashed, lock_, query_status_,
                  has_called_wait_, executor_, num_backends_,
                  num_remaining_backends_, backend_exec_states_, fragment_idx,
                  cancel_idx, params, backend >>

\* ------------------------------------------------------------------ GetNext
\* GetNext returns status r; nil: *batch == NULL. The caller stops calling
\* GetNext after an error or after the final NULL batch.
GetNextReturns(r, nil) ==
  /\ local' = [local EXCEPT ![GetNextT] = r]
  /\ hist' = [hist EXCEPT !.eos = (@ \/ (Ok(r) /\ nil))]

\* GetNext lines 531-545. The caller fetches rows after the Wait that did the
\* waiting returned OK. Without a local fragment GetNext returns GetStatus()
\* and a NULL batch.
GetNextCall ==
  /\ crashed = "no"
  /\ pc[GetNextT] = "idle"
  /\ hist.first_wait # NoThread
  /\ pc[hist.first_wait] = "done"
  /\ Ok(local[hist.first_wait])
  /\ IF executor_.state = "NULL"
     THEN /\ lock_ = NoThread
          /\ GetNextReturns(query_status_, TRUE)
          /\ pc' = [pc EXCEPT ![GetNextT] = "done"]
     ELSE /\ pc' = [pc EXCEPT ![GetNextT] = "pull"]
          /\ UNCHANGED << local, hist >>
  /\ UNCHANGED << stray_backend_num, callVars, insertVars >>
  /\ UNCHANGED << request, release, crashed, lock_, wait_lock_, query_status_,
                  has_called_wait_, executor_, num_backends_,
                  num_remaining_backends_, backend_exec_states_, fragment_idx,
                  cancel_idx, params, backend >>

\* GetNext line 545: executor_->GetNext(batch) returns r, with a row batch
\* (more) or with NULL at the end of the stream or on an error
GetNextPull ==
  /\ crashed = "no"
  /\ pc[GetNextT] = "pull"
  /\ \E r \in ExecutorStatuses :
       \E more \in (IF Ok(r) /\ executor_.batches < MaxBatches
                    THEN BOOLEAN ELSE {FALSE}) :
         /\ local' = [local EXCEPT ![GetNextT] = r]
         /\ executor_' = [executor_ EXCEPT
                            !.batches = IF more THEN @ + 1 ELSE @]
         /\ pc' = [pc EXCEPT ![GetNextT] =
                     IF more THEN "update_batch" ELSE "update_null"]
  /\ UNCHANGED << stray_backend_num, callVars, insertVars >>
  /\ UNCHANGED << request, release, crashed, lock_, wait_lock_, query_status_,
                  has_called_wait_, num_backends_, num_remaining_backends_,
                  backend_exec_states_, fragment_idx, cancel_idx, params,
                  backend, hist >>

\* GetNext line 550: RETURN_IF_ERROR(UpdateStatus(status, ...)), then lines
\* 552 and 564-567
GetNextUpdateStatus ==
  /\ crashed = "no"
  /\ pc[GetNextT] \in {"update_batch", "update_null"}
  /\ lock_ = NoThread
  /\ IF UpdateStatusSets(local[GetNextT], query_status_)
     THEN /\ query_status_' = local[GetNextT]
          /\ lock_' = GetNextT
          /\ BeginCancelInternal(GetNextT)
          /\ pc' = [pc EXCEPT ![GetNextT] = "cancel"]
          /\ hist' = [hist EXCEPT !.cancel_by = Append(@, GetNextT)]
          /\ UNCHANGED local
     ELSE /\ IF ~Ok(query_status_)
             THEN /\ pc' = [pc EXCEPT ![GetNextT] = "done"]
                  /\ GetNextReturns(query_status_, pc[GetNextT] = "update_null")
             ELSE IF pc[GetNextT] = "update_batch"
             THEN /\ pc' = [pc EXCEPT ![GetNextT] = "idle"]
                  /\ GetNextReturns(OK, FALSE)
             ELSE /\ pc' = [pc EXCEPT ![GetNextT] = "wfab_check"]
                  /\ UNCHANGED << local, hist >>
          /\ UNCHANGED << query_status_, lock_, cancel_idx, executor_ >>
  /\ UNCHANGED << stray_backend_num, callVars, insertVars >>
  /\ UNCHANGED << request, release, crashed, wait_lock_, has_called_wait_,
                  num_backends_, num_remaining_backends_,
                  backend_exec_states_, fragment_idx, params, backend >>

\* UpdateStatus returns query_status_ after CancelInternal; GetNext returns it
GetNextCancelReturn ==
  /\ crashed = "no"
  /\ CancelInternalAtEnd(GetNextT)
  /\ cancel_idx' = 0
  /\ lock_' = NoThread
  /\ pc' = [NotifyAll(pc) EXCEPT ![GetNextT] = "done"]
  /\ GetNextReturns(query_status_, TRUE)
  /\ UNCHANGED << stray_backend_num, callVars, insertVars >>
  /\ UNCHANGED << request, release, crashed, wait_lock_, query_status_,
                  has_called_wait_, executor_, num_backends_,
                  num_remaining_backends_, backend_exec_states_, fragment_idx,
                  params, backend >>

\* GetNext lines 559-567: RETURN_IF_ERROR(WaitForAllBackends()); return OK
WaitForAllBackendsInGetNext ==
  /\ crashed = "no"
  /\ pc[GetNextT] = "wfab_check"
  /\ lock_ = NoThread
  /\ IF MustWait(num_remaining_backends_, query_status_)
     THEN /\ pc' = [pc EXCEPT ![GetNextT] = "wfab_wait"]
          /\ UNCHANGED << local, hist >>
     ELSE /\ pc' = [pc EXCEPT ![GetNextT] = "done"]
          /\ GetNextReturns(query_status_, TRUE)
  /\ UNCHANGED << stray_backend_num, callVars, insertVars >>
  /\ UNCHANGED << request, release, crashed, lock_, wait_lock_, query_status_,
                  has_called_wait_, executor_, num_backends_,
                  num_remaining_backends_, backend_exec_states_, fragment_idx,
                  cancel_idx, params, backend >>

\* GetStatus lines 358-361: query_status_, read under lock_
GetStatus == query_status_

\* ------------------------------------------------------------------ specification
Next ==
  \/ ExecPlan
  \/ ExecPrepare
  \/ ExecCreateStates
  \/ \E i \in Instances : ExecRemoteFragmentCall(i)
  \/ \E i \in Instances : ExecRemoteFragmentReturn(i)
  \/ ExecJoin
  \/ ExecCancelReturn
  \/ \E c \in 1 .. NumCancelThreads : CancelCall(c)
  \/ \E t \in Threads : CancelInternalVisit(t)
  \/ \E t \in Threads : CancelInternalRpcReturn(t)
  \/ \E c \in 1 .. NumCancelThreads : CancelReturn(c)
  \/ \E i \in Instances : BackendSendReport(i)
  \/ \E i \in Instances : UpdateFragmentExecStatusLocked(i)
  \/ \E i \in Instances : UpdateFragmentExecStatusMerge(i)
  \/ \E i \in Instances : UpdateFragmentExecStatusError(i)
  \/ \E i \in Instances : ReportCancelReturn(i)
  \/ \E i \in Instances : UpdateFragmentExecStatusDone(i)
  \/ \E w \in 1 .. NumWaitThreads : WaitCall(w)
  \/ \E w \in 1 .. NumWaitThreads : WaitOpen(w)
  \/ \E w \in 1 .. NumWaitThreads : WaitUpdateStatus(w)
  \/ \E w \in 1 .. NumWaitThreads : WaitCancelReturn(w)
  \/ \E w \in 1 .. NumWaitThreads : WaitForAllBackendsInWait(w)
  \/ \E w \in 1 .. NumWaitThreads : WaitFinalize(w)
  \/ GetNextCall
  \/ GetNextPull
  \/ GetNextUpdateStatus
  \/ GetNextCancelReturn
  \/ WaitForAllBackendsInGetNext

Spec == Init /\ [][Next]_vars

\* A status report with an unknown backend_num changes nothing in the
\* coordinator, so Next leaves it out; here such a report can arrive at any
\* point of a run.
StrayReportNext == Next \/ UpdateFragmentExecStatusUnknown

StrayReportSpec == Init /\ [][StrayReportNext]_vars

\* ------------------------------------------------------------------ ComputeScanRangeAssignment
\* the data hosts that hold scan ranges and the execution hosts of a fragment
DataHosts == {"X", "Y"}

ExecHosts == {"E1", "E2"}

\* plan node ids of scan nodes
NodeIds == {1, 2}

\* hdfs_file_split.length of the scan ranges
RangeLengths == {50, 100}

\* the data hosts of a scan range's locations, in the order listed
HostLists ==
  UNION { [ 1 .. n -> DataHosts ] : n \in 0 .. MaxLocations }

\* a TScanRangeLocations: the scan range (a file split with its length, or a
\* range without hdfs_file_split, whose default length is 0; ranges differ in
\* their offset) and its locations; the volume ids of one range's locations
\* differ from each other
RangeShapes ==
  [ file_split : {TRUE}, length : RangeLengths, hosts : HostLists ]
    \cup [ file_split : {FALSE}, length : {0}, hosts : HostLists ]

ScanRangeLocations(shape, k) ==
  [ scan_range |->
      [ file_split |-> shape.file_split, length |-> shape.length,
        offset |-> k ],
    locations |->
      [ j \in 1 .. Len(shape.hosts) |->
          [ server |-> shape.hosts[j], volume_id |-> j - 1 ] ] ]

\* the lists of n scan ranges of a scan node
LocationLists(n) ==
  { [ k \in 1 .. n |-> ScanRangeLocations(f[k], k) ] :
      f \in [ 1 .. n -> RangeShapes ] }

\* FragmentExecParams as ComputeFragmentHosts leaves them (lines 1164-1176):
\* one execution host for all data hosts, one per data host, or none after a
\* failed GetHosts
FragmentExecParams ==
  { [ hosts |-> <<"E1">>, data_server_map |-> [ h \in DataHosts |-> "E1" ] ],
    [ hosts |-> <<"E1", "E2">>,
      data_server_map |-> [ h \in DataHosts |-> IF h = "X" THEN "E1" ELSE "E2" ] ],
    [ hosts |-> <<>>, data_server_map |-> <<>> ] }

\* FindOrInsert (util/container-util.h) on a map
FindOrInsert(map, key, default) ==
  IF key \in DOMAIN map THEN map ELSE (key :> default) @@ map

\* lines 1247-1253
GetScanRangeLength(scan_range) ==
  IF scan_range.file_split THEN scan_range.length ELSE 0

\* lines 1264-1265 for all locations of one range: every location's server
\* gets an entry in assigned_bytes_per_host
RECURSIVE InsertServers(_, _, _)
InsertServers(bytes, locs, j) ==
  IF j > Len(locs) THEN bytes
  ELSE InsertServers(FindOrInsert(bytes, locs[j].server, 0), locs, j + 1)

\* lines 1260-1271: the loop over the locations from location j on; best is
\* the index picked so far (0: data_host is still NULL, and min is
\* numeric_limits<int64_t>::max(), which no host of the model reaches)
RECURSIVE PickLocationFrom(_, _, _, _, _)
PickLocationFrom(locs, bytes, j, min, best) ==
  IF j > Len(locs) THEN best
  ELSE IF best = 0 \/ bytes[locs[j].server] < min
       THEN PickLocationFrom(locs, bytes, j + 1, bytes[locs[j].server], j)
       ELSE PickLocationFrom(locs, bytes, j + 1, min, best)

\* a choice that takes the first location whatever the hosts hold
PickLocationFirstListed(locs, bytes) == IF Len(locs) = 0 THEN 0 ELSE 1

\* a choice that gives a tie to the location listed last
PickLocationLastMinimum(locs, bytes) ==
  IF Len(locs) = 0 THEN 0
  ELSE CHOOSE j \in 1 .. Len(locs) :
         /\ \A m \in 1 .. Len(locs) :
              bytes[locs[m].server] >= bytes[locs[j].server]
         /\ \A m \in j + 1 .. Len(locs) :
              bytes[locs[m].server] > bytes[locs[j].server]

\* lines 1260-1271: the index of the location the range is assigned to,
\* 0 if the range has no location
PickLocation(locs, bytes) == PickLocationFrom(locs, bytes, 1, 0, 0)

\* an assignment that puts the new range in front of the host's list
PrependScanRange(a, host, node, p) ==
  LET a1 == FindOrInsert(a, host, <<>>)
      per == FindOrInsert(a1[host], node, <<>>)
  IN [a1 EXCEPT ![host] = [per EXCEPT ![node] = <<p>> \o @]]

\* lines 1289-1298: FindOrInsert the host's and the node's entry, push_back
AppendScanRange(a, host, node, p) ==
  LET a1 == FindOrInsert(a, host, <<>>)
      per == FindOrInsert(a1[host], node, <<>>)
  IN [a1 EXCEPT ![host] = [per EXCEPT ![node] = Append(@, p)]]

\* the call (line 1241): assigned_bytes_per_host starts empty (line 1258)
ComputeScanRangeAssignmentCall ==
  /\ crashed = "no"
  /\ range_idx = 0
  /\ node_id # 0
  /\ range_idx' = 1
  /\ assigned_bytes_per_host' = <<>>
  /\ UNCHANGED << node_id, locations, exec_params, assignment >>
  /\ UNCHANGED << release, crashed, exceptScanVars >>

\* One iteration of the loop over the scan ranges (lines 1259-1298). A range
\* without locations leaves data_host NULL, which line 1274 dereferences; a
\* fragment without hosts fails the DCHECK of line 1279 or, without DCHECKs,
\* finds no entry in data_server_map and dereferences end() at line 1286.
\* The process is dead after either: the call's state is left as it was.
ComputeScanRangeAssignmentStep ==
  /\ crashed = "no"
  /\ range_idx \in 1 .. Len(locations)
  /\ LET r == locations[range_idx]
         bytes == InsertServers(assigned_bytes_per_host, r.locations, 1)
         best == PickLocation(r.locations, bytes)
     IN IF best = 0
        THEN /\ crashed' = "segv"
             /\ UNCHANGED << release, range_idx, assigned_bytes_per_host,
                             assignment >>
        ELSE LET loc == r.locations[best]
                 p == [ scan_range |-> r.scan_range,
                        volume_id |-> loc.volume_id ]
                 known == Len(exec_params.hosts) = 1
                            \/ loc.server \in DOMAIN exec_params.data_server_map
                 exec_hostport ==
                   IF Len(exec_params.hosts) = 1
                   THEN exec_params.hosts[1]
                   ELSE exec_params.data_server_map[loc.server]
             IN IF Len(exec_params.hosts) > 0 /\ known
                THEN /\ assigned_bytes_per_host' =
                          [bytes EXCEPT ![loc.server] =
                                          @ + GetScanRangeLength(r.scan_range)]
                     /\ assignment' =
                          AppendScanRange(assignment, exec_hostport, node_id, p)
                     /\ range_idx' = range_idx + 1
                     /\ UNCHANGED << release, crashed >>
                ELSE /\ \/ /\ DcheckMayAbort(FALSE)
                           /\ crashed' = "dcheck"
                           /\ UNCHANGED release
                        \/ /\ release' = ReleaseAfterDcheck(FALSE)
                           /\ crashed' = "segv"
                     /\ UNCHANGED << range_idx, assigned_bytes_per_host,
                                     assignment >>
  /\ UNCHANGED << node_id, locations, exec_params >>
  /\ UNCHANGED exceptScanVars

\* the arguments of a call: any scan node, list of scan ranges and
\* fragment parameters of the bounded sets
ScanInit ==
  /\ CoordinatorInit
  /\ request = [ coord |-> FALSE, hosts |-> <<2>> ]
  /\ node_id \in NodeIds
  /\ \E n \in 0 .. MaxRanges : locations \in LocationLists(n)
  /\ exec_params \in FragmentExecParams
  /\ range_idx = 0
  /\ assigned_bytes_per_host = <<>>
  /\ assignment = <<>>
  /\ NoCall

ScanNext ==
  \/ ComputeScanRangeAssignmentCall
  \/ ComputeScanRangeAssignmentStep

\* ComputeScanRangeAssignment applied to every input of the bounded sets
ScanSpec == ScanInit /\ [][ScanNext]_vars

\* ------------------------------------------------------------------ properties
\* the threads that have started CancelInternal, in order
Cancellers == { hist.cancel_by[k] : k \in 1 .. Len(hist.cancel_by) }

\* thread t is at the top of CancelInternal's loop body for instance i and
\* this step carries the visit out
Visits(i) ==
  /\ cancel_idx = i
  /\ i \in 1 .. Len(backend_exec_states_)
  /\ IF lock_ = NoThread THEN FALSE ELSE pc[lock_] = "cancel"
  /\ crashed' = "no"
  /\ cancel_idx' # i \/ pc'[lock_] = "cancel_rpc"

\* an exec state with OK status, initiated = true and done = false
Eligible(es) == Ok(es.status) /\ es.initiated /\ ~es.done

\* C1: once a backend instance's status is non-OK, no step (so no
\* UpdateFragmentExecStatus call, whatever report it carries) makes it OK again.
C1_StatusStaysNonOk ==
  [][ \A i \in 1 .. Len(backend_exec_states_) :
        ~Ok(backend_exec_states_[i].status)
          => ~Ok(backend_exec_states_'[i].status) ]_vars

\* C2: query_status_ is write-once: a non-OK query_status_ never changes
\* again, and CancelInternal is started at most once in the life of the query.
C2_QueryStatusWriteOnce ==
  /\ [][ ~Ok(query_status_) => query_status_' = query_status_ ]_vars
  /\ [](Len(hist.cancel_by) <= 1)

\* C3: after a dispatch failure the process lives on to return the error from
\* Exec; no instance of a later fragment is dispatched; and when Exec has
\* returned, it returned the dispatch error, query_status_ is non-OK and Exec's
\* CancelInternal has run.
C3_ExecReturnsDispatchError ==
  hist.dispatch_failed =>
    /\ crashed # "segv"
    /\ \A i \in 1 .. NumInstances :
         FragOf(i) > fragment_idx
           => ~backend[i].started /\ pc[DispatchT(i)] = "idle"
    /\ pc[ExecT] = "returned" =>
         /\ hist.exec_ret = local[ExecT]
         /\ ~Ok(hist.exec_ret)
         /\ ~Ok(query_status_)
         /\ ExecT \in Cancellers

\* C4 (as the code has it): once Exec has returned a dispatch error, GetStatus
\* gives that same error, which is never CANCELLED: a transport error of
\* ExecPlanFragment shows as the transport error.
C4_GetStatusIsDispatchError ==
  (hist.dispatch_failed /\ pc[ExecT] = "returned" /\ lock_ = NoThread)
    => /\ GetStatus = hist.exec_ret
       /\ GetStatus \in {RPC_ERROR, CLIENT_ERROR, BACKEND_ERROR}

\* Exec has returned the transport error of a failed dispatch and GetStatus
\* can be called
C4_Witness ==
  /\ hist.dispatch_failed
  /\ pc[ExecT] = "returned"
  /\ lock_ = NoThread
  /\ hist.exec_ret = RPC_ERROR
  /\ GetStatus = RPC_ERROR

\* C4 as stated: after a transport error failed the dispatch, GetStatus gives
\* CANCELLED.
C4_GetStatusIsCancelled ==
  (pc[ExecT] = "returned" /\ hist.exec_ret = RPC_ERROR /\ lock_ = NoThread)
    => GetStatus = CANCELLED

\* C5 (as the code has it): a CancelPlanFragment RPC goes out only in the visit
\* of an instance that then has OK status, initiated = true and done = false,
\* and one per visit; a visit of any other instance sends nothing; every visit
\* of an instance with OK status leaves its status CANCELLED. (An instance that
\* qualifies gets no RPC when no client connection can be had.)
C5_CancelOnlyEligible ==
  [][ \A i \in Instances :
        /\ backend'[i].cancel_rpcs # backend[i].cancel_rpcs
             => /\ Visits(i)
                /\ Eligible(backend_exec_states_[i])
                /\ backend'[i].cancel_rpcs = backend[i].cancel_rpcs + 1
        /\ (Visits(i) /\ Ok(backend_exec_states_[i].status))
             => backend_exec_states_'[i].status = CANCELLED ]_vars

\* a CancelInternal has gone through the table: it sent one instance a
\* CancelPlanFragment and marked another, never initiated, without sending
C5_Witness ==
  /\ cancel_idx = Len(backend_exec_states_) + 1
  /\ \E i, j \in 1 .. Len(backend_exec_states_) :
       /\ backend[i].cancel_rpcs = 1
       /\ backend_exec_states_[i].status = CANCELLED
       /\ backend[j].cancel_rpcs = 0
       /\ ~backend_exec_states_[j].initiated
       /\ backend_exec_states_[j].status = CANCELLED

\* C5 as stated: every instance that has OK status, initiated = true and
\* done = false when visited is sent a CancelPlanFragment RPC.
C5_CancelEveryEligible ==
  [][ \A i \in Instances :
        (Visits(i) /\ Eligible(backend_exec_states_[i]))
          => backend'[i].cancel_rpcs = backend[i].cancel_rpcs + 1 ]_vars

\* C6: a Cancel() that finds query_status_ non-OK returns at once and changes
\* nothing of the coordinator or of the backends (no RPC); and query_status_
\* is non-OK once any Cancel() has returned, so every Cancel() after the first
\* one in a sequence is such a call.
C6_CancelIdempotent ==
  /\ [][ \A c \in 1 .. NumCancelThreads :
           (pc[CancelT(c)] = "idle" /\ pc'[CancelT(c)] # "idle"
              /\ ~Ok(query_status_))
             => /\ pc'[CancelT(c)] = "done"
                /\ UNCHANGED << query_status_, backend_exec_states_, backend,
                                executor_, lock_, cancel_idx,
                                num_remaining_backends_, hist >> ]_vars
  /\ [](\A c \in 1 .. NumCancelThreads :
          pc[CancelT(c)] = "done" => ~Ok(query_status_))

\* every Cancel() has returned, the first one ran CancelInternal and sent an
\* RPC, the later ones found query_status_ non-OK
C6_Witness ==
  /\ \A c \in 1 .. NumCancelThreads : pc[CancelT(c)] = "done"
  /\ hist.cancel_by = << CancelT(1) >>
  /\ \E i \in Instances : backend[i].cancel_rpcs = 1

\* C7: of all the threads that call Cancel() or pass an error to UpdateStatus,
\* at most one runs CancelInternal; a Cancel() has returned only after
\* CancelInternal was run by some thread; a thread that does not run it sends
\* no RPC (RPCs go out only from the thread that holds lock_ inside
\* CancelInternal); no instance is sent more than one CancelPlanFragment.
C7_OneCanceller ==
  /\ Cardinality(Cancellers \ {ExecT}) <= 1
  /\ \A c \in 1 .. NumCancelThreads :
       pc[CancelT(c)] = "done" => Cancellers # {}
  /\ \A t \in Threads :
       pc[t] \in {"cancel", "cancel_rpc"} => lock_ = t /\ t \in Cancellers
  /\ \A i \in Instances : backend[i].cancel_rpcs <= 1

\* one Cancel() is inside CancelInternal with an RPC out while an error report
\* is on its way to UpdateStatus and the other Cancel() has yet to get lock_
C7_Witness ==
  /\ pc[CancelT(1)] = "cancel_rpc"
  /\ pc[CancelT(2)] = "idle"
  /\ \E i \in Instances :
       pc[ReportT(i)] = "post" /\ ~Ok(params[i].status)

\* the first Wait() call has returned OK
FirstWaitReturnedOk ==
  /\ hist.first_wait # NoThread
  /\ pc[hist.first_wait] = "done"
  /\ Ok(local[hist.first_wait])

C9_WaitIdempotent ==
  /\ hist.open_calls <= 1
  /\ hist.finalize_calls <= 1
  /\ \A w \in 1 .. NumWaitThreads :
       (pc[WaitT(w)] # "idle" /\ WaitT(w) # hist.first_wait)
         => pc[WaitT(w)] = "done" /\ Ok(local[WaitT(w)])

\* every Wait() has returned; the first one opened the local executor and ran
\* FinalizeQuery
C9_Witness ==
  /\ \A w \in 1 .. NumWaitThreads : pc[WaitT(w)] = "done"
  /\ hist.first_wait = WaitT(1)
  /\ hist.open_calls = 1
  /\ hist.finalize_calls = 1

\* C10: with a local root fragment, GetNext has returned OK with a NULL batch
\* only when num_remaining_backends_ is 0 and every remote instance has
\* reported done = true; a GetNext that ended otherwise returned the query's
\* non-OK status.
C10_NilBatchAfterAllBackends ==
  request.coord =>
    /\ hist.eos => (num_remaining_backends_ = 0 /\ AllDone)
    /\ (pc[GetNextT] = "done" /\ ~hist.eos)
         => (~Ok(local[GetNextT]) /\ local[GetNextT] = query_status_)

\* with a local root fragment, GetNext handed out its row batches and then
\* returned OK with a NULL batch, after reports of the remote instances
C10_Witness ==
  /\ request.coord
  /\ hist.eos
  /\ executor_.batches = MaxBatches
  /\ \E i \in Instances : backend[i].reports > 0

\* Exec has returned OK (every instance is initiated), no report is being
\* handled and no CancelInternal is under way
Quiet ==
  /\ hist.exec_ret = OK
  /\ lock_ = NoThread
  /\ \A i \in 1 .. Len(backend_exec_states_) : pc[ReportT(i)] = "idle"

\* C11 (as the code has it): num_remaining_backends_ counts the instances
\* whose final report with OK status has not been processed: it is 0 only when
\* every instance has had a done = true report processed, and marking an
\* instance CANCELLED does not count it down.
C11_RemainingCountsFinalReports ==
  Len(backend_exec_states_) > 0 =>
    /\ num_remaining_backends_ \in 0 .. num_backends_
    /\ num_remaining_backends_ = 0 => AllDone
    /\ num_remaining_backends_
         >= Cardinality({ i \in 1 .. Len(backend_exec_states_) :
                            ~backend_exec_states_[i].constructed
                              \/ ~backend_exec_states_[i].done })


\* every instance was cancelled while running, and the counter stays where it was
C11_Witness ==
  /\ Quiet
  /\ num_remaining_backends_ = Len(backend_exec_states_)
  /\ \A i \in 1 .. Len(backend_exec_states_) :
       /\ backend_exec_states_[i].initiated
       /\ backend_exec_states_[i].status = CANCELLED
       /\ backend[i].cancel_rpcs = 1

\* C11 as stated: when every initiated instance has had a done = true report
\* processed or has been cancelled, num_remaining_backends_ is 0.
C11_ZeroWhenDoneOrCancelled ==
  (/\ Quiet
   /\ \A i \in 1 .. Len(backend_exec_states_) :
        backend_exec_states_[i].initiated
          => (backend_exec_states_[i].done
                \/ backend_exec_states_[i].status = CANCELLED))
    => num_remaining_backends_ = 0

\* thread t is at a point where its next step acquires lock_ (lines 240, 365,
\* 482, 868, 905)
NeedsQueryLock(t) ==
  \/ t = ExecT /\ pc[t] = "acquire"
  \/ t \in ReportThreads /\ pc[t] \in {"merge", "post"}
  \/ t \in WaitThreads /\ pc[t] \in {"update", "wfab_check"}
  \/ t = GetNextT /\ pc[t] \in {"update_batch", "update_null", "wfab_check"}

\* the instance whose lock thread t acquires in its next step (lines 689, 758,
\* 840); 0 when it acquires none
NeedsInstanceLock(t) ==
  IF t \in DispatchThreads /\ pc[t] = "call" THEN t[2]
  ELSE IF t \in ReportThreads /\ pc[t] = "recv" THEN t[2]
  ELSE IF lock_ = t /\ pc[t] = "cancel"
          /\ cancel_idx \in 1 .. Len(backend_exec_states_)
       THEN cancel_idx
  ELSE 0

\* the thread that holds the lock t is asking for; NoThread when t asks for
\* no lock or the lock is free
WaitsFor(t) ==
  IF NeedsQueryLock(t) THEN lock_
  ELSE IF NeedsInstanceLock(t) \in 1 .. Len(backend_exec_states_)
       THEN backend_exec_states_[NeedsInstanceLock(t)].lock
  ELSE NoThread

\* following the waits-for edges from t leads to start within n steps
RECURSIVE WaitChainReaches(_, _, _)
WaitChainReaches(t, start, n) ==
  IF n = 0 \/ WaitsFor(t) = NoThread THEN FALSE
  ELSE IF WaitsFor(t) = start THEN TRUE
  ELSE WaitChainReaches(WaitsFor(t), start, n - 1)

\* the threads that hold a lock
LockHolders ==
  ({lock_, wait_lock_}
     \cup { backend_exec_states_[i].lock : i \in 1 .. Len(backend_exec_states_) })
    \ {NoThread}

C13_CancelMissesNoInstance ==
  /\ \A i \in 1 .. Len(backend_exec_states_) :
       pc[DispatchT(i)] = "rpc" => Ok(query_status_)
  /\ ( /\ pc[ExecT] = "returned"
       /\ cancel_idx = 0
       /\ \E c \in 1 .. NumCancelThreads :
            /\ pc[CancelT(c)] = "done"
            /\ \E k \in 1 .. Len(hist.cancel_by) : hist.cancel_by[k] = CancelT(c) )
     => \A i \in 1 .. Len(backend_exec_states_) :
          LET es == backend_exec_states_[i]
          IN (es.constructed /\ es.initiated /\ ~es.done)
               => backend[i].cancel_rpcs > 0

\* ------------------------------------------------------------------ C14
\* Scheduling: a thread that can take a step is eventually run. Every thread
\* of the model makes a bounded number of steps, so weak fairness of the
\* next-state relation gives every thread that stays able to step its turn.
FairSpec == Spec /\ WF_vars(Next)

\* the threads that can be inside WaitForAllBackends
WaitForAllBackendsCallers == WaitThreads \cup {GetNextT}

\* thread t is inside WaitForAllBackends (lines 481-491)
InWaitForAllBackends(t) == pc[t] \in {"wfab_check", "wfab_wait"}

\* every instance has had its final OK report counted, or the query status is
\* no longer OK
CompletionOrError == num_remaining_backends_ = 0 \/ ~Ok(query_status_)

\* C14: once every instance has reported done, or the query status has become
\* non-OK, every thread blocked in WaitForAllBackends eventually returns.
C14_BlockedWaitersReturn ==
  \A t \in WaitForAllBackendsCallers :
    (InWaitForAllBackends(t) /\ CompletionOrError) ~> ~InWaitForAllBackends(t)

\* the same for the runs in which the process is not aborted
C14_BlockedWaitersReturnUnlessAborted ==
  \A t \in WaitForAllBackendsCallers :
    (InWaitForAllBackends(t) /\ CompletionOrError)
      ~> (~InWaitForAllBackends(t) \/ crashed # "no")

C16_SchedulerErrorReturnedByExec ==
  ~Ok(hist.scheduler) =>
    /\ crashed = "no"
    /\ pc[ExecT] = "returned"
    /\ hist.exec_ret = hist.scheduler
    /\ \A i \in Instances : ~backend[i].started /\ pc[DispatchT(i)] = "idle"

\* ------------------------------------------------------------------ C17
\* thread t is suspended: inside a CancelPlanFragment or ExecPlanFragment RPC,
\* inside a call of the local executor (Open, GetNext), or waiting on
\* backend_completion_cv_
Suspended(t) == pc[t] \in {"cancel_rpc", "rpc", "open", "pull", "wfab_wait"}

\* C17: no thread other than the one running Exec holds lock_ while it is
\* suspended on a remote RPC, on the local executor or on the completion
\* condition.
C17_NoQueryLockAcrossSuspension ==
  \A t \in Threads \ {ExecT} : Suspended(t) => lock_ # t

\* ------------------------------------------------------------------ C18
\* the call has returned: the loop has gone through all scan ranges
ScanReturned == crashed = "no" /\ range_idx = Len(locations) + 1

\* the scan range params in the assignment, each with its place
EmittedEntries ==
  UNION { UNION { { [ host |-> h, node |-> n, pos |-> q,
                      p |-> assignment[h][n][q] ] :
                    q \in 1 .. Len(assignment[h][n]) } :
                  n \in DOMAIN assignment[h] } :
          h \in DOMAIN assignment }

\* C18: the assignment holds every scan range the loop has gone through
\* exactly once, under the node's id and on one host, each host's list is in
\* input order, and it holds nothing else; so when the call returns the
\* output is the input, range by range.
C18_EveryRangeOnce ==
  range_idx >= 1 =>
    /\ \A k \in 1 .. range_idx - 1 :
         Cardinality({ e \in EmittedEntries :
                         e.p.scan_range = locations[k].scan_range }) = 1
    /\ \A e \in EmittedEntries :
         /\ e.node = node_id
         /\ \E k \in 1 .. range_idx - 1 :
              e.p.scan_range = locations[k].scan_range
    /\ \A e1 \in EmittedEntries : \A e2 \in EmittedEntries :
         (e1.host = e2.host /\ e1.node = e2.node /\ e1.pos < e2.pos)
           => e1.p.scan_range.offset < e2.p.scan_range.offset

\* a call with three scan ranges has returned, two ranges on one execution
\* host and one on the other
C18_Witness ==
  /\ ScanReturned
  /\ Len(locations) = MaxRanges
  /\ \E h1 \in DOMAIN assignment : \E h2 \in DOMAIN assignment :
       /\ h1 # h2
       /\ Len(assignment[h1][node_id]) >= 2
       /\ Len(assignment[h2][node_id]) >= 1

\* ------------------------------------------------------------------ C19
MinOf(S) == CHOOSE x \in S : \A y \in S : x <= y

\* the length of the largest scan range of the input (0 without ranges)
LargestRange ==
  MaxOf({0} \cup { IF locations[k].scan_range.file_split
                   THEN locations[k].scan_range.length ELSE 0 :
                   k \in 1 .. Len(locations) })

\* max - min of the assigned bytes over the hosts of assigned_bytes_per_host
Imbalance ==
  IF DOMAIN assigned_bytes_per_host = {} THEN 0
  ELSE MaxOf({ assigned_bytes_per_host[h] : h \in DOMAIN assigned_bytes_per_host })
         - MinOf({ assigned_bytes_per_host[h] : h \in DOMAIN assigned_bytes_per_host })

\* every scan range lists every data host of the input
EveryRangeOnEveryHost ==
  \A k \in 1 .. Len(locations) :
    { locations[k].locations[j].server : j \in 1 .. Len(locations[k].locations) }
      = DOMAIN assigned_bytes_per_host

\* C19 (as stated): when the call has returned, the assigned bytes of any two
\* data hosts of the input differ by at most the length of the largest range.
C19_ImbalanceBounded ==
  ScanReturned => Imbalance <= LargestRange

\* C19 (amended): the bound holds when every scan range lists every data host
\* of the input.
C19_ImbalanceBoundedWhenReplicatedEverywhere ==
  (ScanReturned /\ EveryRangeOnEveryHost) => Imbalance <= LargestRange

\* three ranges, each on both data hosts, lengths 50 and 100 among them, have
\* been assigned and the two hosts hold different numbers of bytes
C19_Witness ==
  /\ ScanReturned
  /\ EveryRangeOnEveryHost
  /\ Len(locations) = MaxRanges
  /\ DOMAIN assigned_bytes_per_host = DataHosts
  /\ \E k \in 1 .. Len(locations) : GetScanRangeLength(locations[k].scan_range) = 50
  /\ \E k \in 1 .. Len(locations) : GetScanRangeLength(locations[k].scan_range) = 100
  /\ Imbalance > 0

\* ------------------------------------------------------------------ C20
\* the entry of the assignment that holds scan range k
EntryOf(k) ==
  CHOOSE e \in EmittedEntries : e.p.scan_range = locations[k].scan_range

\* the location range k went to, read off the volume id it was emitted with
ChosenLocation(k) == locations[k].locations[EntryOf(k).p.volume_id + 1]

\* the bytes of the ranges before range k that went to data host h
RECURSIVE BytesBefore(_, _)
BytesBefore(k, h) ==
  IF k <= 1 THEN 0
  ELSE BytesBefore(k - 1, h)
         + (IF ChosenLocation(k - 1).server = h
               /\ locations[k - 1].scan_range.file_split
            THEN locations[k - 1].scan_range.length ELSE 0)

\* three file splits of 100 bytes, each located on X and on Y
ThreeRangesOnTwoHosts ==
  /\ Len(locations) = 3
  /\ \A k \in 1 .. 3 :
       /\ locations[k].scan_range.file_split
       /\ locations[k].scan_range.length = 100
       /\ Len(locations[k].locations) = 2
       /\ locations[k].locations[1].server = "X"
       /\ locations[k].locations[2].server = "Y"

\* C20: every range the loop has gone through went to the location whose data
\* host had the fewest assigned bytes at that point, the first listed among
\* equals; the host's bytes grew by the range's length (0 if it is no file
\* split); the emitted range carries that location's volume id; three ranges
\* of 100 bytes on {X, Y} end as 200 and 100, not 300 and 0.
C20_GreedyFirstMinimum ==
  range_idx >= 1 =>
    /\ \A k \in 1 .. range_idx - 1 :
         LET locs == locations[k].locations
             j == EntryOf(k).p.volume_id + 1
         IN /\ j \in 1 .. Len(locs)
            /\ EntryOf(k).p.volume_id = locs[j].volume_id
            /\ \A m \in 1 .. Len(locs) :
                 /\ BytesBefore(k, locs[m].server) >= BytesBefore(k, locs[j].server)
                 /\ m < j =>
                      BytesBefore(k, locs[m].server) > BytesBefore(k, locs[j].server)
    /\ \A h \in DOMAIN assigned_bytes_per_host :
         assigned_bytes_per_host[h] = BytesBefore(range_idx, h)
    /\ (ScanReturned /\ ThreeRangesOnTwoHosts) =>
         /\ assigned_bytes_per_host["X"] = 200
         /\ assigned_bytes_per_host["Y"] = 100

\* the three ranges of 100 bytes on {X, Y} have been assigned: 200 and 100
C20_Witness ==
  /\ ScanReturned
  /\ ThreeRangesOnTwoHosts
  /\ assigned_bytes_per_host["X"] = 200
  /\ assigned_bytes_per_host["Y"] = 100
  /\ Len(exec_params.hosts) = 2

\* ------------------------------------------------------------------ instance ids
\* TUniqueId.lo is an int64_t: here its four 16-bit limbs, the least
\* significant first, in two's complement
Int64Max == << 65535, 65535, 65535, 32767 >>

\* a + n in int64_t as the machine adds, wrapping modulo 2^64, for an int n
\* with |n| < 2^16 (lines 1064, 1065)
Add64(a, n) ==
  LET b == IF n >= 0 THEN << n, 0, 0, 0 >>
                     ELSE << 65536 + n, 65535, 65535, 65535 >>
      s1 == a[1] + b[1]
      s2 == a[2] + b[2] + (s1 \div 65536)
      s3 == a[3] + b[3] + (s2 \div 65536)
      s4 == a[4] + b[4] + (s3 \div 65536)
  IN << s1 % 65536, s2 % 65536, s3 % 65536, s4 % 65536 >>

\* a < b for two int64_t (the comparison of DCHECK_LT, line 1063): the top
\* limb carries the sign
Less64(a, b) ==
  LET key(x) == [x EXCEPT ![4] = (@ + 32768) % 65536]
  IN \E k \in 1 .. 4 :
       /\ key(a)[k] < key(b)[k]
       /\ \A m \in (k + 1) .. 4 : key(a)[m] = key(b)[m]

\* The calls of ComputeFragmentExecParams that are checked: query ids with lo
\* around 0, around -1 and at both ends of int64_t, and the host counts that
\* ComputeFragmentHosts left in fragment_exec_params_ (an unpartitioned root
\* fragment has one host, the coordinator).
IdInputs ==
  { [ name |-> "ids", query_id_ |-> [ hi |-> hi, lo |-> lo ],
      hosts |-> p.hosts, unpartitioned |-> p.unpartitioned,
      instance_ids |-> [ f \in 1 .. Len(p.hosts) |-> << >> ],
      fragment |-> 1, num_backends_ |-> 0, returned |-> FALSE ] :
    hi \in { << 7, 0, 0, 0 >> },
    lo \in { << 0, 0, 0, 0 >>, << 65535, 65535, 65535, 65535 >>,
             << 0, 0, 0, 32768 >>, Add64(Int64Max, -4), Add64(Int64Max, -3),
             Add64(Int64Max, -2), Add64(Int64Max, -1), Int64Max },
    p \in { [ unpartitioned |-> TRUE, hosts |-> << 1, 2 >> ],
            [ unpartitioned |-> TRUE, hosts |-> << 1, 1, 1 >> ],
            [ unpartitioned |-> FALSE, hosts |-> << 2 >> ],
            [ unpartitioned |-> FALSE, hosts |-> << 2, 1 >> ] } }

\* One pass of the inner loop (lines 1058-1067). DCHECK_LT aborts a build with
\* DCHECKs when query_id_.lo >= max - instance_num - 1. A build without them
\* goes on to line 1065, where the signed addition overflows if
\* query_id_.lo + instance_num + 1 > max: undefined behaviour, of which the
\* machine's wrapped sum and a trap are the outcomes a build produces.
AssignInstanceId ==
  /\ crashed = "no"
  /\ call.name = "ids"
  /\ ~call.returned
  /\ call.fragment <= Len(call.hosts)
  /\ Len(call.instance_ids[call.fragment]) < call.hosts[call.fragment]
  /\ LET j == Len(call.instance_ids[call.fragment])
         instance_num == call.num_backends_ + j
         limit == Add64(Add64(Int64Max, 0 - instance_num), -1)
         sum == Add64(Add64(call.query_id_.lo, instance_num), 1)
         overflows == Less64(sum, call.query_id_.lo)
         instance_id == [ hi |-> call.query_id_.hi, lo |-> sum ]
         pushed == [call EXCEPT !.instance_ids[call.fragment] =
                                   Append(@, instance_id)]
     IN IF Less64(call.query_id_.lo, limit)
        THEN /\ call' = pushed
             /\ UNCHANGED << release, crashed >>
        ELSE \/ /\ DcheckMayAbort(FALSE)
                /\ crashed' = "dcheck"
                /\ UNCHANGED << release, call >>
             \/ /\ release' = ReleaseAfterDcheck(FALSE)
                /\ \/ /\ call' = pushed
                      /\ UNCHANGED crashed
                   \/ /\ overflows
                      /\ crashed' = "trap"
                      /\ UNCHANGED call
  /\ UNCHANGED exceptCall

\* the end of a pass of the outer loop (line 1068)
AssignInstanceIdsNextFragment ==
  /\ crashed = "no"
  /\ call.name = "ids"
  /\ ~call.returned
  /\ call.fragment <= Len(call.hosts)
  /\ Len(call.instance_ids[call.fragment]) = call.hosts[call.fragment]
  /\ call' = [call EXCEPT !.num_backends_ = @ + call.hosts[call.fragment],
                          !.fragment = @ + 1]
  /\ UNCHANGED << release, crashed, exceptCall >>

\* lines 1070-1073: the root fragment is no backend if the coordinator runs it
AssignInstanceIdsReturn ==
  /\ crashed = "no"
  /\ call.name = "ids"
  /\ ~call.returned
  /\ call.fragment > Len(call.hosts)
  /\ call' = [call EXCEPT !.num_backends_ =
                            IF call.unpartitioned THEN @ - 1 ELSE @,
                          !.returned = TRUE]
  /\ UNCHANGED << release, crashed, exceptCall >>

\* ------------------------------------------------------------------ C21
\* the instance ids assigned so far, in the order of their instance numbers
AssignedInstanceIds ==
  IF call.name # "ids" THEN << >>
  ELSE LET RECURSIVE Flat(_)
           Flat(f) == IF f > Len(call.instance_ids) THEN << >>
                      ELSE call.instance_ids[f] \o Flat(f + 1)
       IN Flat(1)

\* C21 (as stated): instance number n gets lo = query_id.lo + n + 1, and an
\* assignment that would overflow int64_t is rejected: no instance id is ever
\* stored whose lo has wrapped around to a value below query_id.lo.
C21_OverflowRejected ==
  \A n \in 1 .. Len(AssignedInstanceIds) :
    Less64(call.query_id_.lo, AssignedInstanceIds[n].lo)

\* C21 (what the code keeps in every build): the instance ids are pairwise
\* distinct, differ from the query id, carry the query id's hi, and instance
\* number n has lo = query_id.lo + n + 1 modulo 2^64.
C21_InstanceIdsDistinct ==
  LET ids == AssignedInstanceIds
  IN \A n \in 1 .. Len(ids) :
       /\ ids[n].hi = call.query_id_.hi
       /\ ids[n].lo = Add64(call.query_id_.lo, n)
       /\ ids[n] # call.query_id_
       /\ \A m \in 1 .. Len(ids) : m # n => ids[m] # ids[n]

\* all ids of a three-instance query assigned and the call returned
C21_Witness ==
  /\ call.name = "ids"
  /\ call.returned
  /\ Len(AssignedInstanceIds) = 3
  /\ call.num_backends_ = 2

NoPath == << "", "" >>

\* The calls of FinalizeQuery that are checked. Unpartitioned table: files a
\* and b, the foreign directory sub/ and the sinks' staging directory in the
\* base directory, moves tmp1 -> a and tmp2 -> c. Partitioned table: one
\* partition p, which exists or not, or the partitions p, which exists, and
\* q, which does not. files_to_move_ and partition_row_counts_ are
\* std::maps, walked in key order.
FinalizeInputs ==
  LET file(d) == [ kind |-> "file", data |-> d ]
      dir == [ kind |-> "dir", data |-> "" ]
      stage == << "", "stage" >> :> dir
                 @@ << "stage", "tmp1" >> :> file("tmp1")
                 @@ << "stage", "tmp2" >> :> file("tmp2")
      flat == << "", "a" >> :> file("old a") @@ << "", "b" >> :> file("old b")
                @@ << "", "sub" >> :> dir @@ << "sub", "x" >> :> file("x")
                @@ stage
      part == << "", "p" >> :> dir @@ << "p", "old" >> :> file("old")
      toFlat == << [ src |-> << "", "stage" >>, dst |-> NoPath ],
                   [ src |-> << "stage", "tmp1" >>, dst |-> << "", "a" >> ],
                   [ src |-> << "stage", "tmp2" >>, dst |-> << "", "c" >> ] >>
      toPart == << [ src |-> << "", "stage" >>, dst |-> NoPath ],
                   [ src |-> << "stage", "tmp1" >>, dst |-> << "p", "a" >> ],
                   [ src |-> << "stage", "tmp2" >>, dst |-> << "p", "c" >> ] >>
      toBoth == << [ src |-> << "", "stage" >>, dst |-> NoPath ],
                   [ src |-> << "stage", "tmp1" >>, dst |-> << "p", "a" >> ],
                   [ src |-> << "stage", "tmp2" >>, dst |-> << "q", "c" >> ] >>
  IN { [ name |-> "finalize", is_overwrite |-> o,
         partition_row_counts_ |-> t.partitions, files_to_move_ |-> t.moves,
         fs |-> t.fs, fs0 |-> t.fs, step |-> "partitions", partition |-> 1,
         existing_files |-> << >>, i |-> 1, move |-> 1,
         tmp_dirs_to_delete |-> << >>, status |-> "running", log |-> << >> ] :
       o \in BOOLEAN,
       t \in { [ partitions |-> << "" >>, moves |-> toFlat, fs |-> flat ],
               [ partitions |-> << "p" >>, moves |-> toPart,
                 fs |-> part @@ stage ],
               [ partitions |-> << "p" >>, moves |-> toPart, fs |-> stage ],
               [ partitions |-> << "p", "q" >>, moves |-> toBoth,
                 fs |-> part @@ stage ] } }

\* a FinalizeQuery that deletes whatever hdfsListDirectory lists
DeletedFromRootAny(kind) == TRUE

\* line 422: of the entries of the base directory, the plain files are deleted
DeletedFromRoot(kind) == kind = "file"

\* the filesystem without path p and, p being a directory, what is in it
\* (hdfsDelete with recursive = 1)
HdfsDelete(fs, p) ==
  [ q \in { q \in DOMAIN fs : q # p /\ ~(p[1] = "" /\ q[1] = p[2]) } |-> fs[q] ]

\* a FinalizeQuery that notes an error and goes on
FinalizeGoesOn(c, st) == [c EXCEPT !.status = st]

\* FinalizeQuery returns status st
FinalizeReturns(c, st) == [c EXCEPT !.status = st, !.step = "returned"]

\* the end of one pass of the loop over partition_row_counts_ (line 448):
\* hdfsCreateDirectory, whose result is ignored, creates the partition
\* directory or not if it is not there
FinalizeCreateDirectory(c) ==
  LET key == c.partition_row_counts_[c.partition]
      made == IF key = "" \/ << "", key >> \in DOMAIN c.fs
              THEN { c.fs }
              ELSE { c.fs,
                     c.fs @@ << "", key >> :> [ kind |-> "dir", data |-> "" ] }
  IN { [c EXCEPT !.fs = f, !.partition = @ + 1,
                 !.step = IF c.partition = Len(c.partition_row_counts_)
                          THEN "moves" ELSE "partitions"] : f \in made }

\* One pass of the loop of lines 400-449 up to the deletions of the base
\* directory's files: hdfsListDirectory gives the entries of the base
\* directory in some order or fails; a partition directory that exists is
\* deleted recursively, or the delete fails.
FinalizePartition ==
  /\ crashed = "no"
  /\ call.name = "finalize"
  /\ call.step = "partitions"
  /\ LET key == call.partition_row_counts_[call.partition]
         root == { q \in DOMAIN call.fs : q[1] = "" }
         listings == { l \in [ 1 .. Cardinality(root) -> root ] :
                         \A m, n \in DOMAIN l : m # n => l[m] # l[n] }
     IN IF ~call.is_overwrite
        THEN call' \in FinalizeCreateDirectory(call)
        ELSE IF key = ""
        THEN \/ call' = FinalizeReturns(call, HDFS_ERROR)
             \/ \E l \in listings :
                  call' = [call EXCEPT !.existing_files = l, !.i = 1,
                                       !.step = "delete"]
        ELSE IF << "", key >> \in DOMAIN call.fs
        THEN \/ call' = FinalizeReturns(
                          [call EXCEPT !.log = Append(@, << "delete failed",
                                                          << "", key >> >>)],
                          HDFS_ERROR)
             \/ call' \in FinalizeCreateDirectory(
                            [call EXCEPT
                               !.fs = HdfsDelete(@, << "", key >>),
                               !.log = Append(@, << "delete",
                                                   << "", key >> >>)])
        ELSE call' \in FinalizeCreateDirectory(call)
  /\ UNCHANGED << release, crashed, exceptCall >>

\* One pass of the loop of lines 421-431, and lines 432-433 and 448 after it:
\* a delete that fails ends the loop and FinalizeQuery.
FinalizeDeleteFile ==
  /\ crashed = "no"
  /\ call.name = "finalize"
  /\ call.step = "delete"
  /\ IF call.i > Len(call.existing_files)
     THEN call' \in FinalizeCreateDirectory(call)
     ELSE LET p == call.existing_files[call.i]
          IN IF DeletedFromRoot(call.fs[p].kind)
             THEN \/ call' = FinalizeReturns(
                               [call EXCEPT
                                  !.log = Append(@, << "delete failed", p >>)],
                               HDFS_ERROR)
                  \/ call' = [call EXCEPT
                                !.fs = HdfsDelete(@, p),
                                !.log = Append(@, << "delete", p >>),
                                !.i = @ + 1]
             ELSE call' = [call EXCEPT !.i = @ + 1]
  /\ UNCHANGED << release, crashed, exceptCall >>

\* One pass of the loop of lines 453-468. hdfsRename fails if the source is
\* not there, if the destination is, if the destination's directory is not,
\* or for a reason of its own.
FinalizeMove ==
  /\ crashed = "no"
  /\ call.name = "finalize"
  /\ call.step = "moves"
  /\ IF call.move > Len(call.files_to_move_)
     THEN call' = [call EXCEPT !.step = "tmp_dirs", !.i = 1]
     ELSE LET m == call.files_to_move_[call.move]
              can == /\ m.src \in DOMAIN call.fs
                     /\ m.dst \notin DOMAIN call.fs
                     /\ m.dst[1] = "" \/ << "", m.dst[1] >> \in DOMAIN call.fs
              renamed ==
                [ q \in (DOMAIN call.fs \ {m.src}) \cup {m.dst} |->
                    IF q = m.dst THEN call.fs[m.src] ELSE call.fs[q] ]
          IN IF m.dst = NoPath
             THEN call' = [call EXCEPT
                             !.tmp_dirs_to_delete = Append(@, m.src),
                             !.move = @ + 1]
             ELSE \/ call' = FinalizeReturns(
                               [call EXCEPT
                                  !.log = Append(@, << "rename failed",
                                                      m.src >>)],
                               HDFS_ERROR)
                  \/ /\ can
                     /\ call' = [call EXCEPT
                                   !.fs = renamed,
                                   !.log = Append(@, << "rename", m.src >>),
                                   !.move = @ + 1]
  /\ UNCHANGED << release, crashed, exceptCall >>

\* One pass of the loop of lines 471-476, and line 478 after it
FinalizeDeleteTmpDir ==
  /\ crashed = "no"
  /\ call.name = "finalize"
  /\ call.step = "tmp_dirs"
  /\ IF call.i > Len(call.tmp_dirs_to_delete)
     THEN call' = FinalizeReturns(call, OK)
     ELSE LET p == call.tmp_dirs_to_delete[call.i]
          IN \/ call' = FinalizeReturns(
                          [call EXCEPT
                             !.log = Append(@, << "delete failed", p >>)],
                          HDFS_ERROR)
             \/ call' = [call EXCEPT
                           !.fs = HdfsDelete(@, p),
                           !.log = Append(@, << "delete", p >>),
                           !.i = @ + 1]
  /\ UNCHANGED << release, crashed, exceptCall >>

\* ------------------------------------------------------------------ C23
\* C23: in an OVERWRITE insert into an unpartitioned table, finalization
\* deletes plain files of the base directory only, never a directory of it
\* nor anything inside one, before the renames; once a delete has failed no
\* rename follows and finalization returns an error; when the deletes are
\* through, every file the base directory had is gone; and when finalization
\* returns OK the base directory holds a with tmp1's data and c with tmp2's,
\* no b, and sub/ with its content as it was.
C23_OverwriteDeletesFilesOnly ==
  (call.name = "finalize" /\ call.is_overwrite
     /\ call.partition_row_counts_ = << "" >>)
  => LET log == call.log
         olds == { q \in DOMAIN call.fs0 :
                     q[1] = "" /\ call.fs0[q].kind = "file" }
         kept == { q \in DOMAIN call.fs0 :
                     q[1] = "sub" \/ q = << "", "sub" >> }
     IN /\ \A n \in 1 .. Len(log) :
             /\ (log[n][1] \in { "delete", "delete failed" }
                   /\ ~\E m \in 1 .. n : log[m][1] = "rename")
                  => log[n][2] \in olds
             /\ (log[n][1] = "delete failed"
                   /\ ~\E m \in 1 .. n : log[m][1] = "rename")
                  => /\ n = Len(log)
                     /\ call.status = HDFS_ERROR
                     /\ \A m \in 1 .. Len(log) : log[m][1] # "rename"
        /\ \A q \in kept : q \in DOMAIN call.fs /\ call.fs[q] = call.fs0[q]
        /\ call.step \in { "moves", "tmp_dirs" } \/ call.status = OK
             => \A q \in olds :
                  q \in DOMAIN call.fs => call.fs[q] # call.fs0[q]
        /\ call.status = OK
             => /\ { q \in DOMAIN call.fs : q[1] = "" }
                     = { << "", "a" >>, << "", "c" >>, << "", "sub" >> }
                /\ call.fs[<< "", "a" >>] = [ kind |-> "file", data |-> "tmp1" ]
                /\ call.fs[<< "", "c" >>] = [ kind |-> "file", data |-> "tmp2" ]

\* finalization of an OVERWRITE insert into the unpartitioned table returned OK
C23_Witness ==
  /\ call.name = "finalize"
  /\ call.is_overwrite
  /\ call.partition_row_counts_ = << "" >>
  /\ call.status = OK
  /\ Len(call.log) = 5

\* ------------------------------------------------------------------ C24
\* C24: when the local executor's GetNext has returned a non-OK status,
\* Coordinator::GetNext returns the query-wide status and not the executor's:
\* if the query status is still OK, the executor's status becomes the query
\* status and cancellation starts under lock_, and GetNext returns the query
\* status after it; if the query status is already non-OK, it is left as it
\* is and is what GetNext returns. Once Exec has returned OK, a non-OK query
\* status never changes: it is the first one recorded.
C24_GetNextReturnsQueryStatus ==
  [][ /\ (pc[GetNextT] \in {"update_batch", "update_null"}
            /\ pc'[GetNextT] # pc[GetNextT] /\ ~Ok(local[GetNextT]))
        => IF Ok(query_status_)
           THEN /\ query_status_' = local[GetNextT]
                /\ pc'[GetNextT] = "cancel"
                /\ lock_' = GetNextT
                /\ executor_'.cancelled
                /\ hist'.cancel_by = Append(hist.cancel_by, GetNextT)
           ELSE /\ query_status_' = query_status_
                /\ pc'[GetNextT] = "done"
                /\ local'[GetNextT] = query_status_
                /\ hist'.cancel_by = hist.cancel_by
      /\ (pc[GetNextT] \in {"cancel", "cancel_rpc"}
            /\ pc'[GetNextT] \notin {"cancel", "cancel_rpc"})
        => /\ pc'[GetNextT] = "done"
           /\ ~Ok(query_status_)
           /\ local'[GetNextT] = query_status_
      /\ (hist.exec_ret = OK /\ ~Ok(query_status_))
        => query_status_' = query_status_ ]_vars

\* the local executor's GetNext has returned CANCELLED after a remote
\* instance's error became the query status
C24_Witness ==
  /\ pc[GetNextT] = "update_null"
  /\ local[GetNextT] = CANCELLED
  /\ query_status_ = BACKEND_ERROR

\* ------------------------------------------------------------------ progress
\* the most status reports of one instance
MaxProgressReports == 3

\* the most a scan-ranges-complete counter shows
MaxCounter == 2

\* The reports of one instance that are checked: each report's cumulative
\* profile gives the values of the instance's scan_ranges_complete counters,
\* one per scan node, as any values at all.
ProgressInputs ==
  { [ name |-> "progress", reports |-> r, report |-> 1,
      total_ranges_complete |-> 0, deltas |-> << >> ] :
    r \in UNION { [ 1 .. n -> [ NodeIds -> 0 .. MaxCounter ] ] :
                  n \in 1 .. MaxProgressReports } }

\* UpdateFragmentExecStatus line 864 for the next report of the instance:
\* UpdateNumScanRangesCompleted (lines 185-195) sums the counters, stores the
\* sum, and DCHECK_GE(delta, 0) aborts a build with DCHECKs; a build without
\* them returns the delta, which progress_.Update receives.
UpdateNumScanRangesCompleted ==
  /\ crashed = "no"
  /\ call.name = "progress"
  /\ call.report <= Len(call.reports)
  /\ LET complete == call.reports[call.report]
         RECURSIVE Sum(_)
         Sum(S) == IF S = {} THEN 0
                   ELSE LET n == CHOOSE n \in S : TRUE
                        IN complete[n] + Sum(S \ {n})
         total == Sum(DOMAIN complete)
         delta == total - call.total_ranges_complete
         updated == [call EXCEPT !.total_ranges_complete = total,
                                 !.deltas = Append(@, delta),
                                 !.report = @ + 1]
     IN IF delta >= 0
        THEN /\ call' = updated
             /\ UNCHANGED << release, crashed >>
        ELSE \/ /\ DcheckMayAbort(FALSE)
                /\ crashed' = "dcheck"
                /\ UNCHANGED << release, call >>
             \/ /\ release' = ReleaseAfterDcheck(FALSE)
                /\ call' = updated
                /\ UNCHANGED crashed
  /\ UNCHANGED exceptCall

\* ------------------------------------------------------------------ C25
\* C25 (as stated): for any sequence of status reports of an instance, every
\* delta handed to the progress updater is >= 0 (so total_ranges_complete,
\* the sum of the deltas, never decreases): a report with lower counters is
\* refused.
C25_DeltasNonNegative ==
  call.name = "progress"
    => \A k \in 1 .. Len(call.deltas) : call.deltas[k] >= 0

\* C25 (what the code keeps): total_ranges_complete is the sum of the deltas
\* handed to the progress updater and the total of the last report's
\* counters; in a build with DCHECKs every delta is >= 0, a report with lower
\* counters having aborted the process.
C25_DeltasNonNegativeWithDchecks ==
  call.name = "progress"
    => /\ call.total_ranges_complete = SumSeq(call.deltas)
       /\ Len(call.deltas) = call.report - 1
       /\ ~release => \A k \in 1 .. Len(call.deltas) : call.deltas[k] >= 0

\* three reports with growing counters have been taken in
C25_Witness ==
  /\ call.name = "progress"
  /\ call.deltas = << 1, 1, 2 >>
  /\ call.total_ranges_complete = 4

\* ------------------------------------------------------------------ C26
\* C26 (as stated): every entry of backend_exec_states_ that CancelInternal's
\* loop is about to visit is a constructed BackendExecState.
C26_VisitedEntriesConstructed ==
  \A t \in Threads :
    (lock_ = t /\ pc[t] = "cancel"
       /\ cancel_idx \in 1 .. Len(backend_exec_states_))
      => backend_exec_states_[cancel_idx].constructed

\* C26 (what the code keeps): the entries of the fragments Exec's loop has
\* reached are constructed when CancelInternal visits them; the entries of
\* later fragments are NULL until the loop reaches their fragment.
C26_VisitedEntriesOfReachedFragments ==
  \A t \in Threads :
    (lock_ = t /\ pc[t] = "cancel"
       /\ cancel_idx \in 1 .. Len(backend_exec_states_))
      => (backend_exec_states_[cancel_idx].constructed
            <=> FragOf(cancel_idx) <= fragment_idx)

\* Exec's CancelInternal, after a dispatch failure in the first of two
\* fragments, has visited the first fragment's instance
C26_Witness ==
  /\ hist.dispatch_failed
  /\ lock_ = ExecT
  /\ pc[ExecT] = "cancel"
  /\ cancel_idx = 2
  /\ fragment_idx = 1
  /\ Len(request.hosts) = 2

C28_InsertStateMergedBeforeCountdown ==
  /\ [][ \A i \in 1 .. NumInstances :
           /\ (num_remaining_backends_' < num_remaining_backends_
                 /\ pc[ReportT(i)] = "post" /\ pc'[ReportT(i)] = "idle"
                 /\ InsertExecStatusIsSet)
                => /\ FilesToMove(i) \subseteq files_to_move_
                   /\ "p" \in DOMAIN partition_row_counts_
                   /\ partition_row_counts_["p"] >= i
                   /\ UNCHANGED insertVars
           /\ (pc[ReportT(i)] = "merge" /\ pc'[ReportT(i)] # "merge")
                => /\ lock_ = NoThread
                   /\ params[i].done
                   /\ num_remaining_backends_' = num_remaining_backends_
                   /\ files_to_move_' = files_to_move_ \cup FilesToMove(i)
                   /\ ~(FilesToMove(i) \subseteq files_to_move_) ]_vars
  /\ []((InsertExecStatusIsSet /\ Len(backend_exec_states_) > 0
           /\ num_remaining_backends_ = 0)
          => /\ files_to_move_ = UNION { FilesToMove(i) : i \in 1 .. NumInstances }
             /\ partition_row_counts_
                  = ("p" :> SumSeq([ i \in 1 .. NumInstances |->
                                       NumAppendedRows(i)["p"] ])))

\* the Wait of a query of two remote instances has come back from
\* WaitForAllBackends with OK: both final reports are merged
C28_Witness ==
  /\ ~request.coord
  /\ \E w \in 1 .. NumWaitThreads : pc[WaitT(w)] = "finalize"
  /\ num_remaining_backends_ = 0
  /\ files_to_move_ = { 1, 2 }
  /\ partition_row_counts_ = ("p" :> 3)

\* ------------------------------------------------------------------ ExecRemoteFragment
\* a ReleaseClient that does not give the client back
ReleaseClientNever(c) == c

\* client_cache()->ReleaseClient(backend_client) (lines 712, 724, 728, 799,
\* 811, 818): the call gives one client back to the cache
ReleaseClient(c) ==
  [c EXCEPT !.clients = @ - 1, !.log = Append(@, "release")]

\* The call of ExecRemoteFragment that is checked: a fresh exec state, no
\* client taken from the cache. log is what the call has done so far.
ExecRemoteFragmentInputs ==
  { [ name |-> "exec_rpc", step |-> "start", status |-> OK,
      initiated |-> FALSE, clients |-> 0, log |-> << >>, ret |-> "none" ] }

\* ExecRemoteFragment lines 727-733: the RPC gave result status r
ExecRemoteFragmentResult(c, r) ==
  [ ReleaseClient([c EXCEPT !.status = r])
      EXCEPT !.initiated = Ok(r), !.ret = r, !.step = "returned" ]

\* ExecRemoteFragment lines 689-702: GetClient fails and the error is
\* returned, or the client is taken and ExecPlanFragment is sent, which gives
\* a result (lines 727-733) or throws TTransportException
ExecRemoteFragmentSend ==
  /\ crashed = "no"
  /\ call.name = "exec_rpc"
  /\ call.step = "start"
  /\ \/ call' = [call EXCEPT !.log = Append(@, "GetClient failed"),
                             !.ret = CLIENT_ERROR, !.step = "returned"]
     \/ LET sent == [call EXCEPT !.clients = @ + 1,
                                 !.log = @ \o << "GetClient", "send" >>]
        IN \/ \E r \in {OK, BACKEND_ERROR} :
                call' = ExecRemoteFragmentResult(sent, r)
           \/ call' = [sent EXCEPT !.log = Append(@, "transport failure"),
                                   !.step = "catch"]
  /\ UNCHANGED << release, crashed, exceptCall >>

\* ExecRemoteFragment lines 703-725, in the handler of the first
\* TTransportException: a failed ReopenClient releases the client and returns
\* its status; after a reopen the RPC is sent again, and a second
\* TTransportException becomes the exec state's status
ExecRemoteFragmentRetry ==
  /\ crashed = "no"
  /\ call.name = "exec_rpc"
  /\ call.step = "catch"
  /\ \/ call' = [ ReleaseClient([call EXCEPT
                                   !.log = Append(@, "ReopenClient failed")])
                    EXCEPT !.ret = CLIENT_ERROR, !.step = "returned" ]
     \/ LET sent == [call EXCEPT !.log = @ \o << "ReopenClient", "send" >>]
        IN \/ \E r \in {OK, BACKEND_ERROR} :
                call' = ExecRemoteFragmentResult(sent, r)
           \/ call' = [ ReleaseClient([sent EXCEPT
                                         !.log = Append(@, "transport failure"),
                                         !.status = RPC_ERROR])
                          EXCEPT !.ret = RPC_ERROR, !.step = "returned" ]
  /\ UNCHANGED << release, crashed, exceptCall >>

\* ------------------------------------------------------------------ C29
\* C29: ExecRemoteFragment sends ExecPlanFragment at most twice, the second
\* time only straight after a transport failure of the first and a successful
\* ReopenClient; a client taken from the cache is held until the call
\* returns and has been released exactly once when it returns; and after a
\* second transport failure the call returns the transport error, which is
\* then the instance's status.
C29_RetryOnceReleaseOnce ==
  call.name = "exec_rpc"
    => LET log == call.log
           at(e) == { k \in 1 .. Len(log) : log[k] = e }
       IN /\ Cardinality(at("send")) <= 2
          /\ \A k \in at("send") :
               \/ k = 2 /\ log[1] = "GetClient"
               \/ /\ k = 5
                  /\ SubSeq(log, 1, 4) = << "GetClient", "send",
                                            "transport failure", "ReopenClient" >>
          /\ call.clients = (IF at("GetClient") # {} /\ call.step # "returned"
                             THEN 1 ELSE 0)
          /\ call.step = "returned"
               => /\ Cardinality(at("release")) = Cardinality(at("GetClient"))
                  /\ at("release") \subseteq { Len(log) }
          /\ Cardinality(at("transport failure")) = 2
               => /\ call.step = "returned"
                  /\ call.ret = RPC_ERROR
                  /\ call.status = RPC_ERROR
                  /\ ~call.initiated

\* the second ExecPlanFragment, sent after a reopen, has failed too and the
\* call has returned
C29_Witness ==
  /\ call.name = "exec_rpc"
  /\ call.step = "returned"
  /\ call.log = << "GetClient", "send", "transport failure", "ReopenClient",
                   "send", "transport failure", "release" >>

\* ------------------------------------------------------------------ CancelInternal
\* the number of exec states of the CancelInternal call that is checked
MaxCancelTargets == 2

\* The call of CancelInternal that is checked: every exec state has or has
\* not an error status, its RPC was or was not sent, and only an instance
\* whose RPC was sent can be done. errors are the messages added to the
\* status, states0 keeps the states of the start, log what the call has done.
CancelInternalInputs ==
  LET ExecStates == { s \in [ status : {OK, BACKEND_ERROR}, initiated : BOOLEAN,
                                done : BOOLEAN, errors : { << >> } ] :
                        s.done => s.initiated }
  IN { [ name |-> "cancel", step |-> "loop", i |-> 1, states |-> ss,
         states0 |-> ss, clients |-> 0, log |-> << >> ] :
         ss \in [ 1 .. MaxCancelTargets -> ExecStates ] }

\* a CancelInternal that leaves the loop at a result that is not OK
CancelPlanFragmentResultStops(c, r) ==
  [ ReleaseClient([c EXCEPT !.log = Append(@, "result")])
      EXCEPT !.i = IF r = OK THEN @ + 1 ELSE Len(c.states) + 1,
             !.step = "loop" ]

\* CancelInternal lines 814-818: CancelPlanFragment gave result status r; a
\* status that is not OK adds its messages to the status of instance i
CancelPlanFragmentResult(c, r) ==
  [ ReleaseClient([c EXCEPT
                     !.log = Append(@, IF r = OK THEN "result"
                                                ELSE "result not OK"),
                     !.states[c.i].errors = IF r = OK THEN @
                                                      ELSE Append(@, "result")])
      EXCEPT !.i = @ + 1, !.step = "loop" ]

\* CancelInternal lines 752-793, one turn of the loop: an instance with an
\* error status is left alone, the others become CANCELLED; if the RPC was
\* sent and the instance is not done a client is taken (a failure goes on to
\* the next instance) and CancelPlanFragment is sent, which gives a result
\* (lines 814-818) or throws TTransportException
CancelInternalTurn ==
  /\ crashed = "no"
  /\ call.name = "cancel"
  /\ call.step = "loop"
  /\ call.i <= Len(call.states)
  /\ LET s == call.states[call.i]
         visited == [call EXCEPT !.log = Append(@, "visit")]
         cancelled == [visited EXCEPT !.states[call.i].status = CANCELLED]
     IN IF ~Ok(s.status)
        THEN call' = [visited EXCEPT !.i = @ + 1]
        ELSE IF ~s.initiated \/ s.done
        THEN call' = [cancelled EXCEPT !.i = @ + 1]
        ELSE \/ call' = [cancelled EXCEPT !.log = Append(@, "GetClient failed"),
                                          !.i = @ + 1]
             \/ LET sent == [cancelled EXCEPT
                               !.clients = @ + 1,
                               !.log = @ \o << "GetClient", "send" >>]
                IN \/ \E r \in {OK, BACKEND_ERROR} :
                        call' = CancelPlanFragmentResult(sent, r)
                   \/ call' = [sent EXCEPT
                                 !.log = Append(@, "transport failure"),
                                 !.step = "catch"]
  /\ UNCHANGED << release, crashed, exceptCall >>

\* CancelInternal lines 794-813, in the handler of the first
\* TTransportException: a failed ReopenClient adds its error to the status of
\* the instance, releases the client and goes on; after a reopen the RPC is
\* sent again, and a second TTransportException adds its message
CancelInternalTurnRetry ==
  /\ crashed = "no"
  /\ call.name = "cancel"
  /\ call.step = "catch"
  /\ \/ call' = [ ReleaseClient([call EXCEPT
                                   !.log = Append(@, "ReopenClient failed"),
                                   !.states[call.i].errors = Append(@, "reopen")])
                    EXCEPT !.i = @ + 1, !.step = "loop" ]
     \/ LET sent == [call EXCEPT !.log = @ \o << "ReopenClient", "send" >>]
        IN \/ \E r \in {OK, BACKEND_ERROR} :
                call' = CancelPlanFragmentResult(sent, r)
           \/ call' = [ ReleaseClient([sent EXCEPT
                                         !.log = Append(@, "retry failed"),
                                         !.states[call.i].errors = Append(@, "rpc")])
                          EXCEPT !.i = @ + 1, !.step = "loop" ]
  /\ UNCHANGED << release, crashed, exceptCall >>

\* CancelInternal lines 821-825, after the loop: the completion condition is
\* signalled and the call returns
CancelInternalReturn ==
  /\ crashed = "no"
  /\ call.name = "cancel"
  /\ call.step = "loop"
  /\ call.i > Len(call.states)
  /\ call' = [call EXCEPT !.log = Append(@, "notify_all"), !.step = "returned"]
  /\ UNCHANGED << release, crashed, exceptCall >>

\* ------------------------------------------------------------------ C30
\* C30 as stated: when CancelInternal has returned, every instance towards
\* which something failed (no client, a failed reopen, a failed retry, a
\* result that is not OK) has that failure in its status.
C30_EveryFailureRecorded ==
  call.name = "cancel" /\ call.step = "returned"
    => LET log == call.log
           visit(k) == CHOOSE p \in 1 .. Len(log) :
                         /\ log[p] = "visit"
                         /\ Cardinality({ q \in 1 .. p : log[q] = "visit" }) = k
           turn(k) == { p \in visit(k) .. Len(log) :
                          Cardinality({ q \in 1 .. p : log[q] = "visit" }) = k }
       IN \A k \in 1 .. Len(call.states) :
            (\E p \in turn(k) :
               log[p] \in { "GetClient failed", "ReopenClient failed",
                            "retry failed", "result not OK" })
              => call.states[k].errors # << >>

\* C30: no failure stops the fan-out of CancelInternal. The loop visits the
\* instances in order, one turn each, whatever failed before; an instance
\* that had no error status becomes CANCELLED, and if its RPC was sent and
\* it is not done, a client is asked for; a failed reopen, a failed retry
\* and a result that is not OK each add one message to the status of the
\* instance of that turn and to no other, while a failure to get a client
\* adds nothing anywhere; a client that was taken is released in the same
\* turn; and the call returns only after notify_all.
C30_FanOutNeverStops ==
  call.name = "cancel"
    => LET log == call.log
           n == Len(call.states)
           at(e) == { p \in 1 .. Len(log) : log[p] = e }
           turnOf(p) == Cardinality({ q \in 1 .. p : log[q] = "visit" })
           turn(k) == { p \in 1 .. Len(log) : turnOf(p) = k }
           seen == IF call.step = "returned" THEN n
                   ELSE IF call.step = "catch" THEN call.i ELSE call.i - 1
           recorded(k) == { p \in turn(k) :
                              log[p] \in { "ReopenClient failed",
                                           "retry failed", "result not OK" } }
       IN /\ Cardinality(at("visit")) = seen
          /\ call.step = "returned" <=> at("notify_all") # {}
          /\ at("notify_all") \subseteq { Len(log) }
          /\ call.step = "returned" => seen = n
          /\ call.clients = (IF call.step = "catch" THEN 1 ELSE 0)
          /\ call.step # "catch"
               => Cardinality(at("release")) = Cardinality(at("GetClient"))
          /\ \A k \in 1 .. n :
               LET s0 == call.states0[k]
                   s == call.states[k]
               IN IF k > seen
                  THEN s = s0
                  ELSE /\ s.status = (IF Ok(s0.status) THEN CANCELLED
                                                       ELSE s0.status)
                       /\ Ok(s0.status) /\ s0.initiated /\ ~s0.done
                            <=> \E p \in turn(k) :
                                  log[p] \in { "GetClient", "GetClient failed" }
                       /\ Len(s.errors) = Cardinality(recorded(k))
                       /\ Cardinality(recorded(k)) <= 1
                       /\ k < seen \/ call.step # "catch"
                            => Cardinality(turn(k) \cap at("release"))
                                 = Cardinality(turn(k) \cap at("GetClient"))

\* CancelInternal has returned after the retry towards the first instance
\* failed and no client was there for the second one
C30_Witness ==
  /\ call.name = "cancel"
  /\ call.step = "returned"
  /\ call.log = << "visit", "GetClient", "send", "transport failure",
                   "ReopenClient", "send", "retry failed", "release",
                   "visit", "GetClient failed", "notify_all" >>
  /\ call.states[1].errors = << "rpc" >>
  /\ call.states[2].errors = << >>

\* ------------------------------------------------------------------ C31
\* C31: FinalizeQuery does its steps in order. A rename is tried only when
\* the loop over the partitions is through (every partition directory
\* cleaned and hdfsCreateDirectory called for it), and nothing but tmp
\* directories is deleted after it; a tmp directory is deleted only after
\* every move with a destination was renamed; a failed rename is the last
\* thing FinalizeQuery does: it returns an error, with no further rename and
\* no tmp directory deleted; and when it returns OK every rename and every
\* tmp directory deletion was done.
C31_FinalizeStepsInOrder ==
  call.name = "finalize"
    => LET log == call.log
           moves == call.files_to_move_
           tmp == { moves[m].src : m \in { m \in DOMAIN moves :
                                             moves[m].dst = NoPath } }
           renames == { moves[m].src : m \in { m \in DOMAIN moves :
                                                 moves[m].dst # NoPath } }
           at(e) == { n \in 1 .. Len(log) : log[n][1] = e }
           tries == at("rename") \cup at("rename failed")
           deletes == at("delete") \cup at("delete failed")
       IN /\ tries # {} => call.partition > Len(call.partition_row_counts_)
          /\ \A n \in tries, d \in deletes : d > n => log[d][2] \in tmp
          /\ \A d \in deletes :
               log[d][2] \in tmp
                 => /\ { log[n][2] : n \in { n \in at("rename") : n < d } }
                         = renames
                    /\ at("rename failed") = {}
          /\ \A n \in at("rename failed") :
               /\ n = Len(log)
               /\ call.step = "returned"
               /\ call.status = HDFS_ERROR
               /\ \A q \in tmp : q \in DOMAIN call.fs
          /\ \A m, n \in at("rename") : m < n => log[m][2] # log[n][2]
          /\ call.status = OK
               => /\ { log[n][2] : n \in at("rename") } = renames
                  /\ { log[n][2] : n \in { n \in at("delete") :
                                             log[n][2] \in tmp } } = tmp
                  /\ \A q \in tmp : q \notin DOMAIN call.fs

\* finalization of the table with partitions p and q returned an error from
\* its second rename, after the first one was done
C31_Witness ==
  /\ call.name = "finalize"
  /\ Len(call.partition_row_counts_) = 2
  /\ call.step = "returned"
  /\ call.status = HDFS_ERROR
  /\ Len(call.log) >= 2
  /\ call.log[Len(call.log) - 1] = << "rename", << "stage", "tmp1" >> >>
  /\ call.log[Len(call.log)] = << "rename failed", << "stage", "tmp2" >> >>

\* ------------------------------------------------------------------ C32
\* C32: initiated is false in a new exec state and changes only once, to
\* true, in the step in which the instance's ExecRemoteFragment returns OK
\* after its RPC, and every return after the RPC leaves initiated true
\* exactly if it returns OK. While ExecRemoteFragment is between its RPC and
\* its return it holds the instance lock and no step changes the exec state
\* (no report is stored, no cancellation visit marks it); when it returns,
\* the status it overwrites is still the OK of the constructor, with done
\* false.
C32_InitiatedIffRpcOk ==
  /\ [][ \A i \in DOMAIN backend_exec_states_ \cap DOMAIN backend_exec_states_' :
           LET es == backend_exec_states_[i]
               es2 == backend_exec_states_'[i]
               rpc == pc[DispatchT(i)] = "rpc"
               returns == rpc /\ pc'[DispatchT(i)] = "done"
           IN /\ es2.initiated # es.initiated /\ es.constructed
                   => returns /\ es2.initiated /\ Ok(local'[DispatchT(i)])
              /\ returns
                   => /\ es2.initiated <=> Ok(local'[DispatchT(i)])
                      /\ Ok(es.status) /\ ~es.done /\ ~es.initiated
                      /\ es2.lock = NoThread
              /\ rpc /\ ~returns => es2 = es ]_vars
  /\ [](\A i \in DOMAIN backend_exec_states_ :
          /\ ~backend_exec_states_[i].constructed
               => ~backend_exec_states_[i].initiated
          /\ pc[DispatchT(i)] = "rpc"
               => /\ backend_exec_states_[i].lock = DispatchT(i)
                  /\ cancel_idx = 0
                  /\ pc[ReportT(i)] \in { "idle", "recv" })

\* the backend has taken the fragment and sent a report, which waits for the
\* instance lock that ExecRemoteFragment still holds
C32_Witness ==
  \E i \in DOMAIN backend_exec_states_ :
    /\ pc[DispatchT(i)] = "rpc"
    /\ pc[ReportT(i)] = "recv"
    /\ backend_exec_states_[i].lock = DispatchT(i)

\* ------------------------------------------------------------------ C33
\* C33: when Exec returns OK, backend_exec_states_ has num_backends_ entries
\* and num_remaining_backends_ is num_backends_; from then on the table keeps
\* that size and every entry is constructed; the backend_num in the RPC
\* payload of an exec state is its index in the table, an instance that has
\* taken its fragment holds the backend_num of its own entry, and the step
\* that stores a report changes the entry of the instance that sent it, to
\* the report's status and done, and no other entry.
C33_BackendNumIsTableIndex ==
  /\ [](\A k \in DOMAIN backend_exec_states_ :
          /\ backend_exec_states_[k].constructed
               => backend_exec_states_[k].backend_num = k - 1
          /\ backend[k].started => backend[k].backend_num = k - 1)
  /\ [](hist.exec_ret = OK
          => /\ Len(backend_exec_states_) = num_backends_
             /\ num_backends_ = SumSeq(request.hosts)
             /\ \A k \in DOMAIN backend_exec_states_ :
                  backend_exec_states_[k].constructed)
  /\ [][ /\ hist.exec_ret # OK /\ hist'.exec_ret = OK
              => num_remaining_backends_' = num_backends_'
         /\ \A i \in Instances :
              pc[ReportT(i)] = "recv" /\ pc'[ReportT(i)] # "recv"
                /\ crashed' = "no"
                => /\ i \in DOMAIN backend_exec_states_
                   /\ backend_exec_states_'[i].status = params[i].status
                   /\ backend_exec_states_'[i].done = params[i].done
                   /\ \A k \in DOMAIN backend_exec_states_ \ {i} :
                        backend_exec_states_'[k] = backend_exec_states_[k] ]_vars

\* Exec has returned OK and the final report of the second of two instances
\* has been stored, while the first is still running
C33_Witness ==
  /\ hist.exec_ret = OK
  /\ Len(backend_exec_states_) = 2
  /\ backend_exec_states_[2].done
  /\ ~backend_exec_states_[1].done
  /\ Ok(backend_exec_states_[1].status)
  /\ backend[2].backend_num = 1

\* ------------------------------------------------------------------ C34
\* C34 as stated: once Exec has returned a non-OK status, GetStatus is non-OK.
C34_ExecErrorInQueryStatus ==
  (pc[ExecT] = "returned" /\ ~Ok(hist.exec_ret)) => ~Ok(GetStatus)

\* C34, what holds: once Exec has returned the error of a failed dispatch,
\* GetStatus is non-OK for good; the return with the error of Prepare (line
\* 257) leaves query_status_ as it was, OK unless Cancel was called before.
C34_DispatchErrorInQueryStatus ==
  /\ [](pc[ExecT] = "returned" /\ ~Ok(hist.exec_ret) /\ hist.dispatch_failed
          => ~Ok(GetStatus))
  /\ [][(pc[ExecT] # "returned" /\ pc'[ExecT] = "returned"
           /\ ~Ok(hist'.exec_ret) /\ ~hist'.dispatch_failed)
          => /\ hist'.exec_ret = LOCAL_ERROR
             /\ query_status_' = query_status_
             /\ backend_exec_states_' = << >>]_vars

\* Exec has returned the error of Prepare and the query status is OK
C34_Witness ==
  /\ pc[ExecT] = "returned"
  /\ hist.exec_ret = LOCAL_ERROR
  /\ Ok(GetStatus)
  /\ lock_ = NoThread

\* ------------------------------------------------------------------ progress_
\* ProgressUpdater::Update(delta): the updater's count of completed ranges
\* grows by delta
ProgressUpdaterUpdate(num_complete, delta) == num_complete + delta

\* The run of progress_ that is checked: the coordinator has a progress_
\* that nothing has counted into, Exec is dispatching and has not reached
\* line 352, and two instances that have taken their fragments have reported
\* nothing yet.
ProgressUpdaterInputs ==
  { [ name |-> "progress_", assigned |-> FALSE, progress_ |-> 0,
      backend_exec_states_ |-> [ i \in 1 .. 2 |->
                                   [ total_ranges_complete |-> 0 ] ],
      num_reports |-> 0 ] }

\* UpdateFragmentExecStatus line 864 for a report of instance i whose
\* counters sum to total, which is not below the last total (see C25): the
\* delta goes to progress_, under the lock of the exec state and no other
UpdateFragmentExecStatusProgress ==
  /\ crashed = "no"
  /\ call.name = "progress_"
  /\ call.num_reports < MaxProgressReports
  /\ \E i \in DOMAIN call.backend_exec_states_ :
       LET exec_state == call.backend_exec_states_[i]
       IN \E total \in exec_state.total_ranges_complete .. MaxCounter :
            call' = [call EXCEPT
                       !.progress_ = ProgressUpdaterUpdate(
                                       @, total - exec_state.total_ranges_complete),
                       !.backend_exec_states_[i].total_ranges_complete = total,
                       !.num_reports = @ + 1]
  /\ UNCHANGED << release, crashed, exceptCall >>

\* Exec line 352, after the last fragment was dispatched:
\* progress_ = ProgressUpdater(label, num_scan_ranges_), a new updater that
\* has counted nothing
ExecAssignProgress ==
  /\ crashed = "no"
  /\ call.name = "progress_"
  /\ ~call.assigned
  /\ call' = [call EXCEPT !.progress_ = 0, !.assigned = TRUE]
  /\ UNCHANGED << release, crashed, exceptCall >>

\* ------------------------------------------------------------------ C35
\* C35 as stated: what progress_ has counted is the sum of the instances'
\* total_ranges_complete, at any time.
C35_ProgressIsSumOfTotals ==
  call.name = "progress_"
    => call.progress_
         = call.backend_exec_states_[1].total_ranges_complete
             + call.backend_exec_states_[2].total_ranges_complete

\* C35, what holds: every report adds to progress_ what it adds to the
\* instance's total_ranges_complete, so that until Exec reaches line 352
\* progress_ is the sum of the totals; the assignment of line 352 sets the
\* count back to 0 and leaves the totals, and from then on progress_ is the
\* sum of the deltas of the later reports only.
C35_ProgressCountsDeltasSinceAssignment ==
  /\ [](call.name = "progress_" /\ ~call.assigned
          => call.progress_
               = call.backend_exec_states_[1].total_ranges_complete
                   + call.backend_exec_states_[2].total_ranges_complete)
  /\ [][call.name = "progress_"
          => LET sum(c) == c.backend_exec_states_[1].total_ranges_complete
                             + c.backend_exec_states_[2].total_ranges_complete
             IN IF call'.assigned # call.assigned
                THEN /\ call'.progress_ = 0
                     /\ call'.backend_exec_states_ = call.backend_exec_states_
                ELSE /\ call'.progress_ - call.progress_ = sum(call') - sum(call)
                     /\ sum(call') >= sum(call) ]_vars

\* a report was counted before Exec assigned progress_ and another after it
C35_Witness ==
  /\ call.name = "progress_"
  /\ call.assigned
  /\ \A i \in 1 .. 2 :
       call.backend_exec_states_[i].total_ranges_complete = 1
  /\ call.progress_ = 1

\* ------------------------------------------------------------------ host planning
\* g_JavaConstants_constants.INVALID_PLAN_NODE_ID
INVALID_PLAN_NODE_ID == -1

\* The calls of ComputeFragmentExecParams (line 229) and of the translation
\* of ComputeScanRangeAssignment (line 230) that are checked. A request has
\* fragments (partitioned or not, the plan's nodes in the order of
\* plan.nodes, the exchange node its stream sink sends to), dest_fragment_idx
\* and per_node_scan_ranges (node id -> ranges, a range being the data hosts
\* of its locations). A fragment sends to a fragment of lower index and node
\* ids are not shared between fragments, as the planner numbers them. image
\* is the execution host that scheduler()->GetHosts gives for a data host.
\* Fragments, dest_fragment_idx and fragment_exec_params_ are indexed from 0.
PlanInputs ==
  LET Z(s) == [ k \in 0 .. Len(s) - 1 |-> s[k + 1] ]
      node(id, type, n) ==
        [ node_id |-> id, node_type |-> type, num_children |-> n ]
      frag(p, nodes, dest) ==
        [ partitioned |-> p, nodes |-> nodes, dest_node_id |-> dest ]
      exch(id) == node(id, "EXCHANGE_NODE", 0)
      scan(id) == node(id, "HDFS_SCAN_NODE", 0)
      root == frag(FALSE, << exch(10) >>, INVALID_PLAN_NODE_ID)
      onXY == 1 :> << << "X" >>, << "Y", "X" >> >>
      one(nodes, ranges) ==
        [ fragments |-> Z(<< root, frag(TRUE, nodes, 10) >>),
          dest_fragment_idx |-> Z(<< 0 >>),
          per_node_scan_ranges |-> ranges ]
      two(nodes, ranges) ==
        [ fragments |->
            Z(<< root, frag(TRUE, nodes, 10),
                 frag(TRUE, << scan(1) >>, 11) >>),
          dest_fragment_idx |-> Z(<< 0, 1 >>),
          per_node_scan_ranges |-> ranges ]
      join(id, second) ==
        << node(5, "HASH_JOIN_NODE", 2), id, second >>
      requests ==
        { \* a scan fragment under the coordinator fragment
          one(<< scan(1) >>, onXY),
          \* its scan node has no scan ranges
          one(<< scan(1) >>, 1 :> << >>),
          \* a join of two scans; the second reads from the first's data
          \* hosts, or from a host of its own
          one(join(scan(1), scan(2)), onXY @@ 2 :> << << "X" >> >>),
          one(join(scan(1), scan(2)), onXY @@ 2 :> << << "Z" >> >>),
          \* an aggregation over an exchange, fed by a scan fragment
          two(<< node(6, "AGGREGATION_NODE", 1), exch(11) >>, onXY),
          \* a join of an exchange with a scan, fed by a scan fragment
          two(join(exch(11), scan(2)), onXY @@ 2 :> << << "X" >> >>),
          \* two scan fragments that send to the same exchange node
          [ fragments |->
              Z(<< root, frag(TRUE, << scan(1) >>, 10),
                   frag(TRUE, << scan(2) >>, 10) >>),
            dest_fragment_idx |-> Z(<< 0, 0 >>),
            per_node_scan_ranges |-> onXY @@ 2 :> << << "Z" >> >> ],
          \* a partitioned root fragment (parallel INSERT)
          [ fragments |->
              Z(<< frag(TRUE, << scan(1) >>, INVALID_PLAN_NODE_ID) >>),
            dest_fragment_idx |-> Z(<< >>),
            per_node_scan_ranges |-> onXY ] }
      none == [ hosts |-> << >>, data_server_map |-> << >>,
                instance_ids |-> << >>, per_exch_num_senders |-> << >>,
                destinations |-> << >> ]
  IN { [ name |-> "plan", exec_request |-> r, image |-> g,
         fragment_exec_params_ |-> [ k \in DOMAIN r.fragments |-> none ],
         num_backends_ |-> 0, step |-> "hosts",
         i |-> Cardinality(DOMAIN r.fragments) - 1, status |-> OK,
         translated |-> {} ] :
       r \in requests, g \in [ { "X", "Y", "Z" } -> ExecHosts ] }

\* FindLeftmostNode (lines 1181-1197): the id of the first node without
\* children if its type is one of types
FindLeftmostNode(nodes, types) ==
  LET leaves == { k \in 1 .. Len(nodes) : nodes[k].num_children = 0 }
  IN IF leaves = {}
     THEN INVALID_PLAN_NODE_ID
     ELSE LET node == nodes[CHOOSE k \in leaves : \A m \in leaves : k <= m]
          IN IF node.node_type \in types THEN node.node_id
             ELSE INVALID_PLAN_NODE_ID

\* FindLeftmostInputFragment (lines 1199-1221): the first fragment that
\* sends to the leftmost node of fragment fragment_idx, an exchange node
FindLeftmostInputFragment(fragment_index, exec_request) ==
  LET exch_id ==
        FindLeftmostNode(exec_request.fragments[fragment_index].nodes,
                         { "EXCHANGE_NODE" })
      senders == { k \in DOMAIN exec_request.dest_fragment_idx :
                     /\ exec_request.dest_fragment_idx[k] = fragment_index
                     /\ exec_request.fragments[k + 1].dest_node_id = exch_id }
  IN IF exch_id = INVALID_PLAN_NODE_ID \/ senders = {}
     THEN INVALID_PLAN_NODE_ID
     ELSE (CHOOSE k \in senders : \A m \in senders : k <= m) + 1

\* lines 1172-1175: sort, unique, erase leave the hosts of S in order
\* (the coordinator's host is "C")
SortedHosts(S) ==
  LET rank == "C" :> 0 @@ "E1" :> 1 @@ "E2" :> 2
      RECURSIVE Sorted(_)
      Sorted(T) == IF T = {} THEN << >>
                   ELSE LET h == CHOOSE h \in T : \A g \in T : rank[h] <= rank[g]
                        IN << h >> \o Sorted(T \ {h})
  IN Sorted(S)

\* One pass of the loop of ComputeFragmentHosts (lines 1117-1177), from the
\* last fragment to the first. A GetHosts that fails ends ComputeFragmentHosts
\* with the fragment and those before it left without hosts, and
\* ComputeFragmentExecParams goes on at line 1056 (the status is dropped at
\* line 1054).
ComputeFragmentHostsPass ==
  /\ crashed = "no"
  /\ call.name = "plan"
  /\ call.step = "hosts"
  /\ LET i == call.i
         fragment == call.exec_request.fragments[i]
         ranges == call.exec_request.per_node_scan_ranges
         leftmost_scan_id ==
           FindLeftmostNode(fragment.nodes,
                            { "HDFS_SCAN_NODE", "HBASE_SCAN_NODE" })
         input_fragment_idx == FindLeftmostInputFragment(i, call.exec_request)
         next(c) == [c EXCEPT !.i = @ - 1,
                              !.step = IF i = 0 THEN "ids" ELSE "hosts"]
         on(hosts) == next([call EXCEPT !.fragment_exec_params_[i].hosts = hosts])
     IN IF ~fragment.partitioned
        THEN call' = on(<< "C" >>) /\ UNCHANGED << release, crashed >>
        ELSE IF leftmost_scan_id = INVALID_PLAN_NODE_ID
        THEN IF input_fragment_idx \in DOMAIN call.fragment_exec_params_
             THEN /\ call' =
                       on(call.fragment_exec_params_[input_fragment_idx].hosts)
                  /\ UNCHANGED << release, crashed >>
             ELSE \* DCHECK_GE, DCHECK_LT (lines 1132-1133), else line 1134
                  \* reads outside fragment_exec_params_
                  /\ \/ DcheckMayAbort(FALSE) /\ crashed' = "dcheck"
                                              /\ UNCHANGED release
                     \/ release' = ReleaseAfterDcheck(FALSE) /\ crashed' = "segv"
                  /\ UNCHANGED call
        ELSE IF leftmost_scan_id \notin DOMAIN ranges
                  \/ ranges[leftmost_scan_id] = << >>
        THEN call' = on(<< "C" >>) /\ UNCHANGED << release, crashed >>
        ELSE LET scan_range_locations == ranges[leftmost_scan_id]
                 data_hosts ==
                   UNION { { scan_range_locations[k][m] :
                               m \in 1 .. Len(scan_range_locations[k]) } :
                           k \in 1 .. Len(scan_range_locations) }
             IN /\ \/ call' = [call EXCEPT !.status = SCHEDULER_ERROR,
                                           !.step = "ids"]
                   \/ call' =
                        next([call EXCEPT
                                !.fragment_exec_params_[i].data_server_map =
                                  [ d \in data_hosts |-> call.image[d] ],
                                !.fragment_exec_params_[i].hosts =
                                  SortedHosts({ call.image[d] :
                                                  d \in data_hosts })])
                /\ UNCHANGED << release, crashed >>
  /\ UNCHANGED exceptCall

\* lines 1056-1073 of ComputeFragmentExecParams: the instance ids of every
\* fragment's hosts, numbered through from query_id_.lo + 1 (query_id_.lo
\* is 0 here), and num_backends_
ComputeFragmentExecParamsIds ==
  /\ crashed = "no"
  /\ call.name = "plan"
  /\ call.step = "ids"
  /\ LET fragment_params == call.fragment_exec_params_
         size == Cardinality(DOMAIN fragment_params)
         RECURSIVE before(_)
         before(f) == IF f = 0 THEN 0
                      ELSE before(f - 1) + Len(fragment_params[f - 1].hosts)
         unpartitioned == ~call.exec_request.fragments[0].partitioned
     IN call' =
          [call EXCEPT
             !.fragment_exec_params_ =
               [ f \in DOMAIN fragment_params |->
                   [fragment_params[f] EXCEPT
                      !.instance_ids =
                        [ j \in 1 .. Len(fragment_params[f].hosts) |->
                            before(f) + (j - 1) + 1 ]] ],
             !.num_backends_ =
               before(size) - (IF unpartitioned THEN 1 ELSE 0),
             !.i = 1,
             !.step = IF size > 1 THEN "destinations" ELSE "done"]
  /\ UNCHANGED << release, crashed, exceptCall >>

\* line 1091: per_exch_num_senders[exch_id] += n, on a map whose missing
\* entries start at 0
AddSendersOverwrites(per_exch_num_senders, exch_id, n) ==
  IF exch_id \in DOMAIN per_exch_num_senders
  THEN [per_exch_num_senders EXCEPT ![exch_id] = n]
  ELSE per_exch_num_senders @@ exch_id :> n

AddSenders(per_exch_num_senders, exch_id, n) ==
  IF exch_id \in DOMAIN per_exch_num_senders
  THEN [per_exch_num_senders EXCEPT ![exch_id] = @ + n]
  ELSE per_exch_num_senders @@ exch_id :> n

\* One pass of the loop of lines 1077-1103: fragment i is counted as a sender
\* of its destination's exchange node and gets one destination per host of
\* its destination fragment
ComputeFragmentExecParamsDestinations ==
  /\ crashed = "no"
  /\ call.name = "plan"
  /\ call.step = "destinations"
  /\ LET i == call.i
         size == Cardinality(DOMAIN call.fragment_exec_params_)
         fragment_params == call.fragment_exec_params_[i]
         dest_fragment_idx == call.exec_request.dest_fragment_idx[i - 1]
         dest_params == call.fragment_exec_params_[dest_fragment_idx]
         exch_id == call.exec_request.fragments[i].dest_node_id
     IN call' =
          [call EXCEPT
             !.fragment_exec_params_[dest_fragment_idx].per_exch_num_senders =
               AddSenders(@, exch_id, Len(fragment_params.hosts)),
             !.fragment_exec_params_[i].destinations =
               [ j \in 1 .. Len(dest_params.hosts) |->
                   [ fragment_instance_id |-> dest_params.instance_ids[j],
                     server |-> dest_params.hosts[j] ] ],
             !.i = i + 1,
             !.step = IF i + 1 < size THEN "destinations" ELSE "done"]
  /\ UNCHANGED << release, crashed, exceptCall >>

\* Lines 1276-1288 of ComputeScanRangeAssignment for a scan range of node
\* scan_node_id whose chosen location is on data_host (the location chosen is
\* one of the range's, lines 1258-1272): the execution host of the
\* assignment. SetExecPlanFragmentParams (lines 1324-1326) gives the
\* instance on params.hosts[instance_idx] the ranges assigned to that host.
\* A data host missing from data_server_map fails the DCHECK of line 1286,
\* and without the DCHECK line 1287 reads through end(): the read faults or
\* yields a host that is not one of the fragment's ("?").
TranslateDataHost ==
  /\ crashed = "no"
  /\ call.name = "plan"
  /\ call.step = "done"
  /\ \E scan_node_id \in DOMAIN call.exec_request.per_node_scan_ranges :
       \E k \in
          1 .. Len(call.exec_request.per_node_scan_ranges[scan_node_id]) :
         LET range_locations ==
               call.exec_request.per_node_scan_ranges[scan_node_id][k]
             fragments == call.exec_request.fragments
             holds(f) == \E n \in 1 .. Len(fragments[f].nodes) :
                           fragments[f].nodes[n].node_id = scan_node_id
             scan_fragment_idx ==
               CHOOSE f \in DOMAIN fragments :
                 holds(f) /\ \A g \in DOMAIN fragments : holds(g) => g <= f
             fragment_params == call.fragment_exec_params_[scan_fragment_idx]
             to(data_host, exec_hostport) ==
               call' = [call EXCEPT !.translated =
                          @ \cup { [ node_id |-> scan_node_id,
                                     fragment_idx |-> scan_fragment_idx,
                                     data_host |-> data_host,
                                     exec_host |-> exec_hostport ] }]
         IN \E m \in 1 .. Len(range_locations) :
              LET data_host == range_locations[m]
                  found == data_host \in DOMAIN fragment_params.data_server_map
              IN /\ \A t \in call.translated :
                      t.node_id = scan_node_id => t.data_host # data_host
                 /\ IF Len(fragment_params.hosts) = 0
                    THEN \* DCHECK_GT (line 1279), else the lookup of line 1285
                         \/ DcheckMayAbort(FALSE) /\ crashed' = "dcheck"
                              /\ UNCHANGED << release, call >>
                         \/ release' = ReleaseAfterDcheck(FALSE)
                              /\ crashed' = "segv" /\ UNCHANGED call
                         \/ release' = ReleaseAfterDcheck(FALSE)
                              /\ to(data_host, "?") /\ UNCHANGED crashed
                    ELSE IF Len(fragment_params.hosts) = 1
                    THEN to(data_host, fragment_params.hosts[1])
                           /\ UNCHANGED << release, crashed >>
                    ELSE IF found
                    THEN to(data_host,
                            fragment_params.data_server_map[data_host])
                           /\ UNCHANGED << release, crashed >>
                    ELSE \/ DcheckMayAbort(FALSE) /\ crashed' = "dcheck"
                              /\ UNCHANGED << release, call >>
                         \/ release' = ReleaseAfterDcheck(FALSE)
                              /\ crashed' = "segv" /\ UNCHANGED call
                         \/ release' = ReleaseAfterDcheck(FALSE)
                              /\ to(data_host, "?") /\ UNCHANGED crashed
  /\ UNCHANGED exceptCall

\* C36 as it is worded, for the plans whose scheduler calls all succeeded:
\* the translation of every scan node's chosen data host ends normally, and
\* the execution host it gives is the host of exactly one instance of the
\* scan node's fragment
C36_EveryDataHostTranslates ==
  (call.name = "plan" /\ call.status = OK) =>
    /\ crashed = "no"
    /\ \A t \in call.translated :
         LET hosts == call.fragment_exec_params_[t.fragment_idx].hosts
         IN Cardinality({ j \in 1 .. Len(hosts) : hosts[j] = t.exec_host }) = 1

\* C36: what holds of the translation. A data host that is in the fragment's
\* data_server_map, or any data host when the fragment has one host, goes
\* to the host of exactly one instance of the fragment. After a planning
\* whose scheduler calls succeeded that covers every data host of every
\* fragment's leftmost scan node. A translation fails (DCHECK, fault, or a
\* host that no instance has) only for a data host that is not in the map
\* of a fragment with other than one host.
C36_KnownDataHostTranslates ==
  call.name = "plan" =>
    LET exec_request == call.exec_request
        planned == call.step \in { "ids", "destinations", "done" }
        ranges == exec_request.per_node_scan_ranges
        servers(scan_node_id) ==
          IF scan_node_id \in DOMAIN ranges
          THEN UNION { { ranges[scan_node_id][k][m] :
                           m \in 1 .. Len(ranges[scan_node_id][k]) } :
                       k \in 1 .. Len(ranges[scan_node_id]) }
          ELSE {}
        known(f, d) ==
          /\ Len(call.fragment_exec_params_[f].hosts) >= 1
          /\ \/ Len(call.fragment_exec_params_[f].hosts) = 1
             \/ d \in DOMAIN call.fragment_exec_params_[f].data_server_map
        instances(f, h) ==
          { j \in 1 .. Len(call.fragment_exec_params_[f].hosts) :
              call.fragment_exec_params_[f].hosts[j] = h }
    IN /\ \A t \in call.translated :
            IF known(t.fragment_idx, t.data_host)
            THEN Cardinality(instances(t.fragment_idx, t.exec_host)) = 1
            ELSE t.exec_host = "?"
       /\ (planned /\ call.status = OK) =>
            \A f \in DOMAIN exec_request.fragments :
              \A d \in servers(FindLeftmostNode(
                                 exec_request.fragments[f].nodes,
                                 { "HDFS_SCAN_NODE", "HBASE_SCAN_NODE" })) :
                known(f, d)
       /\ crashed # "no" =>
            \E f \in DOMAIN exec_request.fragments :
              \E n \in 1 .. Len(exec_request.fragments[f].nodes) :
                \E d \in servers(exec_request.fragments[f].nodes[n].node_id) :
                  ~known(f, d)

\* the second scan node of a join's fragment had a data host translated, to
\* the host of one of the fragment's two instances
C36_Witness ==
  /\ call.name = "plan"
  /\ call.status = OK
  /\ \E t \in call.translated :
       /\ t.node_id = 2
       /\ Len(call.fragment_exec_params_[t.fragment_idx].hosts) = 2
       /\ \E j \in 1 .. 2 :
            call.fragment_exec_params_[t.fragment_idx].hosts[j] = t.exec_host

\* C37: once ComputeFragmentExecParams is through, for every fragment and
\* every exchange node e in it per_exch_num_senders[e] (0 when e has no
\* entry) is the number of hosts of all fragments whose stream sink sends to
\* e in that fragment, also when several fragments send to e; the map has no
\* other entries; and dest_fragment_idx is recovered from the maps: the
\* destination of fragment i is the one fragment whose map has an entry for
\* the exchange node that i's sink names
C37_SendersPerExchangeNode ==
  (call.name = "plan" /\ call.step = "done") =>
    LET exec_request == call.exec_request
        fragments == exec_request.fragments
        senders(f, e) ==
          { i \in DOMAIN fragments \ {0} :
              /\ exec_request.dest_fragment_idx[i - 1] = f
              /\ fragments[i].dest_node_id = e }
        RECURSIVE instances(_)
        instances(S) ==
          IF S = {} THEN 0
          ELSE LET i == CHOOSE i \in S : TRUE
               IN Len(call.fragment_exec_params_[i].hosts)
                    + instances(S \ {i})
        counts(f) == call.fragment_exec_params_[f].per_exch_num_senders
        exch_nodes(f) ==
          { fragments[f].nodes[n].node_id :
              n \in { n \in 1 .. Len(fragments[f].nodes) :
                        fragments[f].nodes[n].node_type = "EXCHANGE_NODE" } }
    IN /\ \A f \in DOMAIN fragments :
            /\ DOMAIN counts(f) \subseteq exch_nodes(f)
            /\ \A e \in exch_nodes(f) :
                 (IF e \in DOMAIN counts(f) THEN counts(f)[e] ELSE 0)
                   = instances(senders(f, e))
       /\ \A i \in DOMAIN fragments \ {0} :
            { d \in DOMAIN fragments :
                fragments[i].dest_node_id \in DOMAIN counts(d) }
              = { exec_request.dest_fragment_idx[i - 1] }

\* two fragments, with two hosts and one host, sent to the same exchange node
\* of fragment 0, which counts three senders
C37_Witness ==
  /\ call.name = "plan"
  /\ call.step = "done"
  /\ call.exec_request.dest_fragment_idx = (0 :> 0 @@ 1 :> 0)
  /\ Len(call.fragment_exec_params_[1].hosts) = 2
  /\ Len(call.fragment_exec_params_[2].hosts) = 1
  /\ call.fragment_exec_params_[0].per_exch_num_senders = (10 :> 3)

\* C38 as it is worded: once ComputeFragmentExecParams is through, every
\* fragment but the first has one destination per host of its destination
\* fragment, the j-th with the instance id and host of that fragment's j-th
\* instance, and an unpartitioned fragment 0 has exactly one instance, which
\* num_backends_ leaves out
C38_DestinationsAndLocalRoot ==
  (call.name = "plan" /\ call.step = "done") =>
    LET all_params == call.fragment_exec_params_
        RECURSIVE hosts_from(_)
        hosts_from(f) ==
          IF f \notin DOMAIN all_params THEN 0
          ELSE Len(all_params[f].hosts) + hosts_from(f + 1)
    IN /\ \A i \in DOMAIN all_params \ {0} :
            LET dest == all_params[call.exec_request.dest_fragment_idx[i - 1]]
            IN /\ Len(all_params[i].destinations) = Len(dest.hosts)
               /\ \A j \in 1 .. Len(dest.hosts) :
                    all_params[i].destinations[j] =
                      [ fragment_instance_id |-> dest.instance_ids[j],
                        server |-> dest.hosts[j] ]
       /\ ~call.exec_request.fragments[0].partitioned =>
            /\ Len(all_params[0].hosts) = 1
            /\ call.num_backends_ = hosts_from(1)

\* C38: what holds. The destinations are as worded in every run: one per
\* host of the destination fragment, the j-th with that fragment's j-th host
\* and instance id, which is the number of hosts of the fragments before it
\* plus j. An unpartitioned fragment 0 has the coordinator's host as its one
\* instance, left out of num_backends_, when every scheduler call succeeded.
\* After a failed one, num_backends_ is still the number of hosts less one.
C38_DestinationsAndLocalRootWhenScheduled ==
  (call.name = "plan" /\ call.step = "done") =>
    LET all_params == call.fragment_exec_params_
        RECURSIVE hosts_from(_)
        hosts_from(f) ==
          IF f \notin DOMAIN all_params THEN 0
          ELSE Len(all_params[f].hosts) + hosts_from(f + 1)
        unpartitioned == ~call.exec_request.fragments[0].partitioned
    IN /\ \A i \in DOMAIN all_params \ {0} :
            LET dest_fragment_idx == call.exec_request.dest_fragment_idx[i - 1]
                dest == all_params[dest_fragment_idx]
            IN /\ Len(all_params[i].destinations) = Len(dest.hosts)
               /\ \A j \in 1 .. Len(dest.hosts) :
                    /\ all_params[i].destinations[j].server = dest.hosts[j]
                    /\ all_params[i].destinations[j].fragment_instance_id
                         = dest.instance_ids[j]
                    /\ dest.instance_ids[j]
                         = hosts_from(0) - hosts_from(dest_fragment_idx) + j
       /\ (unpartitioned /\ call.status = OK) =>
            /\ all_params[0].hosts = << "C" >>
            /\ call.num_backends_ = hosts_from(1)
       /\ call.num_backends_
            = hosts_from(0) - (IF unpartitioned THEN 1 ELSE 0)

\* a scan fragment got two destinations, the two instances of the
\* aggregation fragment above it, and fragment 0's one instance is not
\* among the four backends
C38_Witness ==
  /\ call.name = "plan"
  /\ call.step = "done"
  /\ call.status = OK
  /\ Cardinality(DOMAIN call.fragment_exec_params_) = 3
  /\ call.fragment_exec_params_[0].hosts = << "C" >>
  /\ Len(call.fragment_exec_params_[1].hosts) = 2
  /\ Len(call.fragment_exec_params_[2].destinations) = 2
  /\ call.fragment_exec_params_[2].destinations[2].fragment_instance_id = 3
  /\ call.num_backends_ = 4

\* The hosts C39 names for fragment f: an unpartitioned fragment has the
\* coordinator's host only, a partitioned one whose leftmost scan node has
\* scan ranges has the scheduler's hosts for the data hosts of those ranges,
\* one whose leftmost scan node has no ranges has the coordinator's host, and
\* one without a leftmost scan node has the host list of its leftmost input
\* fragment, a fragment of higher index; no host is there twice
HostsAsWorded(f) ==
  LET fragment == call.exec_request.fragments[f]
      hosts == call.fragment_exec_params_[f].hosts
      ranges == call.exec_request.per_node_scan_ranges
      leftmost_scan_id ==
        FindLeftmostNode(fragment.nodes,
                         { "HDFS_SCAN_NODE", "HBASE_SCAN_NODE" })
      input_fragment_idx == FindLeftmostInputFragment(f, call.exec_request)
      data_hosts ==
        UNION { { ranges[leftmost_scan_id][k][m] :
                    m \in 1 .. Len(ranges[leftmost_scan_id][k]) } :
                k \in 1 .. Len(ranges[leftmost_scan_id]) }
  IN /\ \A j, k \in 1 .. Len(hosts) : hosts[j] = hosts[k] => j = k
     /\ IF ~fragment.partitioned THEN hosts = << "C" >>
        ELSE IF leftmost_scan_id = INVALID_PLAN_NODE_ID
        THEN /\ input_fragment_idx > f
             /\ hosts = call.fragment_exec_params_[input_fragment_idx].hosts
        ELSE IF leftmost_scan_id \notin DOMAIN ranges
                  \/ ranges[leftmost_scan_id] = << >>
        THEN hosts = << "C" >>
        ELSE { hosts[j] : j \in 1 .. Len(hosts) }
               = { call.image[d] : d \in data_hosts }

\* C39 as it is worded: once ComputeFragmentHosts is through, every fragment
\* has at least one host, and its hosts are those of HostsAsWorded
C39_EveryFragmentHasHosts ==
  (call.name = "plan" /\ call.step \in { "ids", "destinations", "done" }) =>
    \A f \in DOMAIN call.exec_request.fragments :
      /\ Len(call.fragment_exec_params_[f].hosts) >= 1
      /\ HostsAsWorded(f)

\* C39: what holds. When every scheduler call succeeded, every fragment has
\* at least one host and the hosts of HostsAsWorded. After a scheduler call
\* that failed, fragment 0 has no host, and every fragment has either no host
\* or the hosts of HostsAsWorded.
C39_EveryFragmentHasHostsWhenScheduled ==
  (call.name = "plan" /\ call.step \in { "ids", "destinations", "done" }) =>
    LET hosts(f) == call.fragment_exec_params_[f].hosts
    IN IF call.status = OK
       THEN \A f \in DOMAIN call.exec_request.fragments :
              Len(hosts(f)) >= 1 /\ HostsAsWorded(f)
       ELSE /\ hosts(0) = << >>
            /\ \A f \in DOMAIN call.exec_request.fragments :
                 hosts(f) = << >> \/ HostsAsWorded(f)

\* hosts were planned for three fragments: the scan fragment has the two
\* hosts the scheduler gave for its two data hosts, the aggregation fragment
\* above it has the same two, and fragment 0 has the coordinator's
C39_Witness ==
  /\ call.name = "plan"
  /\ call.step = "ids"
  /\ call.status = OK
  /\ Cardinality(DOMAIN call.fragment_exec_params_) = 3
  /\ call.fragment_exec_params_[2].hosts = << "E1", "E2" >>
  /\ call.fragment_exec_params_[1].hosts = << "E1", "E2" >>
  /\ FindLeftmostInputFragment(1, call.exec_request) = 2
  /\ call.fragment_exec_params_[0].hosts = << "C" >>

\* ------------------------------------------------------------------ calls
\* the calls that are checked by themselves, each on its bounded inputs
CallInputs ==
  IdInputs \cup FinalizeInputs \cup ProgressInputs
    \cup ExecRemoteFragmentInputs \cup CancelInternalInputs
    \cup ProgressUpdaterInputs \cup PlanInputs

CallInit ==
  /\ CoordinatorInit
  /\ request = [ coord |-> FALSE, hosts |-> <<2>> ]
  /\ NoScanRangeAssignment
  /\ call \in CallInputs

CallNext ==
  \/ AssignInstanceId
  \/ AssignInstanceIdsNextFragment
  \/ AssignInstanceIdsReturn
  \/ FinalizePartition
  \/ FinalizeDeleteFile
  \/ FinalizeMove
  \/ FinalizeDeleteTmpDir
  \/ UpdateNumScanRangesCompleted
  \/ ExecRemoteFragmentSend
  \/ ExecRemoteFragmentRetry
  \/ CancelInternalTurn
  \/ CancelInternalTurnRetry
  \/ CancelInternalReturn
  \/ UpdateFragmentExecStatusProgress
  \/ ExecAssignProgress
  \/ ComputeFragmentHostsPass
  \/ ComputeFragmentExecParamsIds
  \/ ComputeFragmentExecParamsDestinations
  \/ TranslateDataHost

CallSpec == CallInit /\ [][CallNext]_vars

====
